---- MODULE Spec2Model ----
(***************************************************************************)
(* State-machine model of eptSubscriber (ept_subscriber.py): the           *)
(* dispatcher (send_msg, send_msg_direct, broadcast), the event router and *)
(* background batcher, the bootstrap and steady-state loop of _run, the    *)
(* EPM EOF barrier, and soft / hard restart.                               *)
(***************************************************************************)
EXTENDS Integers, Sequences, FiniteSets, TLC

VARIABLES
    last_seq,       \* worker.last_seq[qnum], per (worker_id, qnum)
    redis_q,        \* the redis list of worker.queues[qnum], head first
    queue_locks,    \* worker.queue_locks[qnum]: "free" or the holding thread
    call,           \* per thread: the send_msg / send_msg_direct call in progress
    stamp_log,      \* per (worker_id, qnum): the seq values in stamping order
    nmsgs,          \* number of messages handed to the dispatcher so far
    initializing,   \* self.initializing
    epm_initializing,   \* self.epm_initializing
    stopped,        \* self.stopped
    soft_restart_ts,    \* self.soft_restart_ts
    epm_eof_tracking,   \* self.epm_eof_tracking: None, or worker_id -> acked
    epm_eof_start,  \* self.epm_eof_start: -1 for None
    settings,       \* self.settings: queue_init_events, queue_init_epm_events, vpc_pair_type
    now,            \* time.time()
    sub,            \* self.subscriber: alive, subscribed, paused interests
    ctrl_listening, \* the redis listener on SUBSCRIBER_CTRL_CHANNEL runs
    main,           \* the sub-main thread in _run
    ev,             \* the subscription thread delivering control and slow MO events
    ctrl,           \* the sub-redis thread in handle_subscriber_ctrl
    std_mo_event_queue, \* self.std_mo_event_queue
    epm_event_queue,    \* self.epm_event_queue
    published,      \* the messages published on the broadcast channels, in order
    worker_broadcast_seq,   \* self.worker_broadcast_seq
    watcher_broadcast_seq,  \* self.watcher_broadcast_seq
    fabric_events,  \* the fabric events added by fabric.add_fabric_event, in order
    db_writes,      \* per table: how many times it has been rebuilt
    mgr_channel,    \* the messages published on MANAGER_CTRL_CHANNEL
    sr_log,         \* the timestamps of the soft restarts that ran, in order
    n_events,       \* number of subscription events delivered so far
    n_ctrl,         \* number of control-channel messages delivered so far
    delivered,      \* the events delivered so far: callback and the flags it found
    queue_stats_lock,   \* self.queue_stats_lock: "free" or the holding thread
    manager_ctrl_channel_lock,  \* self.manager_ctrl_channel_lock, likewise
    lock_ops,       \* per thread: the lock operations left in its current call
    redis_ok,       \* the redis connection accepts rpush / lpush
    lost,           \* the envelopes whose push raised, per (worker_id, qnum)
    total_tx_msg,   \* self.queue_stats[queue].total_tx_msg, per (worker_id, qnum)
    bg,             \* the sub-event thread in handle_background_event_queue
    handed,         \* the lists the batcher handed to send_msg, in order
    vpc_pair_type,  \* self.settings.vpc_pair_type
    apic_pair_type, \* pairT of uni/fabric/protpol on the controller
    nodes,          \* the eptNode table: node id -> exists, role, name
    auto_start,     \* self.fabric.auto_start
    apic_version,   \* get_fabric_version()["controller"], parsed: one version per controller
    history,        \* the eptHistory documents of this fabric, in the order find() returns them
    epm_reply,      \* per EPM class, the objects its class query streams back, in order
    queue_stats,    \* self.queue_stats[queue].total_tx_msg as increment_stats leaves it
    stats_call,     \* per thread: the increment_stats calls of its current call
    bcast_call      \* per thread: the broadcast call in progress

lockvars == <<queue_stats_lock, manager_ctrl_channel_lock, lock_ops, queue_stats, stats_call,
              bcast_call>>

txvars == <<redis_ok, lost, total_tx_msg>>

bgvars == <<bg, handed>>

ppvars == <<vpc_pair_type, apic_pair_type>>

\* everything in svars but the batcher
vvars == <<auto_start, apic_version>>

notbg == <<ppvars, nodes, vvars, history, epm_reply>>

svars == <<bgvars, ppvars, nodes, vvars, history, epm_reply>>

xvars == <<txvars, svars>>

dcore == <<last_seq, redis_q, queue_locks, call, stamp_log, nmsgs, lockvars, txvars>>

dvars == <<last_seq, redis_q, queue_locks, call, stamp_log, nmsgs, lockvars, xvars>>

flags == <<initializing, epm_initializing, stopped, soft_restart_ts, settings>>

barrier == <<epm_eof_tracking, epm_eof_start>>

threads == <<main, ev, ctrl>>

evq == <<std_mo_event_queue, epm_event_queue>>

bvars == <<published, worker_broadcast_seq, watcher_broadcast_seq>>

world == <<now, sub, ctrl_listening, n_events, delivered, n_ctrl>>

logs == <<fabric_events, db_writes, mgr_channel, sr_log>>

fvars == <<flags, barrier, threads, evq, bvars, world, logs>>

vars == <<dvars, fvars>>

----------------------------------------------------------------------------
(* Bounds of the model *)

\* common.MAX_SEND_MSG_LENGTH, scaled down
MAX_SEND_MSG_LENGTH == 2
\* longest batch handed to one send_msg call in SpecBulk
MaxBatch == 5
\* number of messages handed to the dispatcher in SpecDispatch, over all calls
MaxMsgs == 3
\* common.MAX_EPM_BUILD_TIME, scaled down to clock ticks
MAX_EPM_BUILD_TIME == 1
\* number of subscription events delivered
MaxEvents == 2
\* number of control-channel messages other than acks delivered
MaxCtrl == 1
\* number of FABRIC_EPM_EOF_ACK messages delivered
MaxAcks == 2
\* largest event timestamp (_ts)
MaxTs == 1

\* eptHistory documents in the database when build_endpoint_db runs
MaxHistory == 2

\* calls the threads make, all together, in one run of the lock model
MaxLockCalls == 3

----------------------------------------------------------------------------
(* The active worker table handed to the constructor *)

WorkerIds == {"w0", "w1", "x0", "z0"}

\* self.active_workers: role -> ordered list of workers; z0 registered without queues
active_workers == [worker |-> <<"w0", "w1">>, watcher |-> <<"x0">>, idle |-> <<"z0">>]

\* len(worker.queues)
NumQueues == [w \in WorkerIds |-> IF w = "w0" THEN 2 ELSE IF w = "z0" THEN 0 ELSE 1]

Keys == {k \in WorkerIds \X (0..1) : k[2] < NumQueues[k[1]]}

Threads == {"main", "batcher", "ctrl"}

\* sub-main, sub-hello, sub-stats, sub-event, sub-redis and the subscription thread
LockThreads == {"main", "hello", "stats", "batcher", "ctrl", "event"}

WORKER_BROADCAST_CHANNEL == "worker_broadcast"

WATCHER_BROADCAST_CHANNEL == "watcher_broadcast"

WORKER_CTRL_CHANNEL == "worker_ctrl"

\* self.queue_stats: the three channels, "total" and every worker queue
QueueStatsKeys ==
    {<<c, "", 0>> : c \in {WATCHER_BROADCAST_CHANNEL, WORKER_BROADCAST_CHANNEL,
                           WORKER_CTRL_CHANNEL, "total"}}
        \cup {<<"queue", k[1], k[2]>> : k \in Keys}

\* a thread outside increment_stats
StatsIdle == [keys |-> <<>>, pc |-> "idle", tmp |-> 0, made |-> <<>>]

\* a thread outside broadcast
BcastIdle == [pc |-> "idle", wt |-> "none", incs |-> <<>>, tmp |-> 0, channels |-> <<>>,
              seq |-> <<>>, n |-> 0]

----------------------------------------------------------------------------
(* Messages *)

\* eptMsgWork and children: the fields the dispatcher reads or writes
Msg(wt, role, vnid, addr, qnum) ==
    [wt |-> wt, role |-> role, vnid |-> vnid, addr |-> addr, qnum |-> qnum,
     seq |-> 0, force |-> FALSE, data |-> 0,
     classname |-> "none", node |-> 0, status |-> "none"]

\* common.get_msg_hash: a stable function of (vnid, addr)
get_msg_hash(m) == m.vnid * 31 + m.addr

\* the inner messages an envelope carries
Expand(e) == IF e.wt = "BULK" THEN e.msgs ELSE <<e>>

RECURSIVE Flatten(_)
Flatten(q) == IF q = <<>> THEN <<>> ELSE Expand(Head(q)) \o Flatten(Tail(q))

----------------------------------------------------------------------------
(* send_msg: routing of one message *)

HasWorkers(m) ==
    /\ m.role \in DOMAIN active_workers
    /\ Len(active_workers[m.role]) > 0

SelectWorkerBySeq(m) ==
    active_workers[m.role][((get_msg_hash(m) + m.data) % Len(active_workers[m.role])) + 1]

SelectWorker(m) ==
    active_workers[m.role][(get_msg_hash(m) % Len(active_workers[m.role])) + 1]

\* a qnum that is too high is replaced by the first queue
ClampQnumFirst(w, m) ==
    IF m.qnum >= NumQueues[w] THEN 0 ELSE m.qnum

ClampQnum(w, m) ==
    IF m.qnum >= NumQueues[w] THEN NumQueues[w] - 1 ELSE m.qnum

\* a message send_msg can enqueue: its role has workers and the worker has a queue
Routable(m) == HasWorkers(m) /\ NumQueues[SelectWorker(m)] > 0

RouteKey(m) == <<SelectWorker(m), ClampQnum(SelectWorker(m), m)>>

EmptyWork == [k \in Keys |-> <<>>]

BulkFullStrict(bulk) == Len(bulk) > MAX_SEND_MSG_LENGTH

BulkFull(bulk) == Len(bulk) >= MAX_SEND_MSG_LENGTH

\* work[worker_id][qnum][1]: append m to the last bulk, opening a new one when full
AppendWork(work, k, m) ==
    LET b1 == IF work[k] = <<>> THEN << <<>> >> ELSE work[k]
        b2 == IF BulkFull(b1[Len(b1)]) THEN Append(b1, <<>>) ELSE b1
    IN [work EXCEPT ![k] = [b2 EXCEPT ![Len(b2)] = Append(@, m)]]

\* m.seq = worker.last_seq[m.qnum], m being the last message appended for k
StampLast(work, k, s) ==
    [work EXCEPT ![k] =
        [@ EXCEPT ![Len(@)] = [@ EXCEPT ![Len(@)] = [@ EXCEPT !.seq = s]]]]

\* a bulk of one message is sent as that message, else bulk.seq is the last seq
MakeEnvelope(bulk) ==
    IF Len(bulk) = 1 THEN bulk[1]
    ELSE [wt |-> "BULK", seq |-> bulk[Len(bulk)].seq, msgs |-> bulk]

\* redis.lpush / redis.rpush
Push(q, env, prepend) == IF prepend THEN <<env>> \o q ELSE Append(q, env)

CanAcquireUnlocked(c, k) == TRUE

\* with worker.queue_locks[qnum]: the lock is free
CanAcquire(c, k) == queue_locks[k] = "free"

----------------------------------------------------------------------------
(* Dispatcher threads *)

Idle == [pc |-> "idle", fn |-> "none", msgs |-> <<>>, i |-> 0, prepend |-> FALSE,
         work |-> EmptyWork, sent |-> EmptyWork, key |-> <<"w0", 0>>, tmp |-> 0,
         worker |-> "w0", cur |-> <<>>]

\* the messages of a call carry the payload that tells them apart
Tag(batch, n, force) ==
    [j \in 1..Len(batch) |-> [batch[j] EXCEPT !.data = n + j, !.force = force]]

AfterMsg(cs) ==
    IF cs.i < Len(cs.msgs) THEN [cs EXCEPT !.i = @ + 1, !.pc = "route"]
    ELSE IF \E k \in Keys : cs.work[k] # <<>> THEN [cs EXCEPT !.i = @ + 1, !.pc = "push"]
    ELSE [cs EXCEPT !.i = @ + 1, !.pc = "done"]

\* the exception of a failed push propagates: the call ends there
AfterPushRaise(work) == IF redis_ok /\ \E k \in Keys : work[k] # <<>> THEN "push" ELSE "done"

\* lines 398-408: the push is inside try/except, the loops go on to the next bulk
AfterPush(work) == IF \E k \in Keys : work[k] # <<>> THEN "push" ELSE "done"

\* increment_stats(worker.queues[qnum], tx=True)
increment_stats(tx, k) == [tx EXCEPT ![k] = @ + 1]

\* send_msg(msg, prepend) is entered
SendMsgBegin(c, batch, prepend) ==
    /\ call[c].pc = "idle"
    /\ call' = [call EXCEPT ![c] =
                  [Idle EXCEPT !.pc = "route", !.fn = "send_msg", !.msgs = Tag(batch, nmsgs, prepend),
                               !.i = 1, !.prepend = prepend]]
    /\ nmsgs' = nmsgs + Len(batch)
    /\ UNCHANGED <<last_seq, redis_q, queue_locks, stamp_log, lockvars, xvars>>

\* lines 354-381: route msgs[i], add it to work, take the queue lock and read last_seq
SendMsgRoute(c) ==
    LET cs == call[c]
        m == cs.msgs[cs.i]
    IN /\ cs.pc = "route"
       /\ IF ~Routable(m)
          THEN /\ call' = [call EXCEPT ![c] = AfterMsg(cs)]
               /\ UNCHANGED queue_locks
          ELSE LET k == RouteKey(m)
               IN /\ CanAcquire(c, k)
                  /\ queue_locks' = [queue_locks EXCEPT ![k] = c]
                  /\ call' = [call EXCEPT ![c] =
                        [cs EXCEPT !.pc = "stamp", !.key = k, !.tmp = last_seq[k],
                                   !.work = AppendWork(cs.work, k, [m EXCEPT !.qnum = k[2]])]]
       /\ UNCHANGED <<last_seq, redis_q, stamp_log, nmsgs, lockvars, xvars>>

\* lines 381-382: write last_seq, stamp the message, release the lock
SendMsgStamp(c) ==
    LET cs == call[c]
        k == cs.key
        s == cs.tmp + 1
    IN /\ cs.pc = "stamp"
       /\ last_seq' = [last_seq EXCEPT ![k] = s]
       /\ stamp_log' = [stamp_log EXCEPT ![k] = Append(@, s)]
       /\ queue_locks' = [queue_locks EXCEPT ![k] = "free"]
       /\ call' = [call EXCEPT ![c] = AfterMsg([cs EXCEPT !.work = StampLast(cs.work, k, s)])]
       /\ total_tx_msg' = increment_stats(total_tx_msg, k)
       /\ UNCHANGED <<redis_q, nmsgs, lockvars, redis_ok, lost, svars>>

\* lines 387-408: push the next envelope of one (worker_id, qnum) under its lock
SendMsgPush(c) ==
    LET cs == call[c]
    IN /\ cs.pc = "push"
       /\ \E k \in Keys :
            /\ cs.work[k] # <<>>
            /\ CanAcquire(c, k)
            /\ LET env == MakeEnvelope(Head(cs.work[k]))
                   w2 == [cs.work EXCEPT ![k] = Tail(@)]
               IN /\ redis_q' = IF redis_ok THEN [redis_q EXCEPT ![k] = Push(@, env, cs.prepend)]
                                  ELSE redis_q
                  /\ lost' = IF redis_ok THEN lost ELSE [lost EXCEPT ![k] = Append(@, env)]
                  /\ call' = [call EXCEPT ![c] =
                        [cs EXCEPT !.work = w2,
                                   !.sent = IF redis_ok THEN [@ EXCEPT ![k] = Append(@, env)] ELSE @,
                                   !.pc = AfterPush(w2)]]
       /\ UNCHANGED <<last_seq, queue_locks, stamp_log, nmsgs, lockvars, redis_ok, total_tx_msg, svars>>

\* send_msg_direct(worker, msg) is entered
SendDirectBegin(c, w, batch) ==
    /\ call[c].pc = "idle"
    /\ call' = [call EXCEPT ![c] =
                  [Idle EXCEPT !.pc = "d_route", !.fn = "send_msg_direct", !.msgs = Tag(batch, nmsgs, FALSE),
                               !.i = 1, !.worker = w]]
    /\ nmsgs' = nmsgs + Len(batch)
    /\ UNCHANGED <<last_seq, redis_q, queue_locks, stamp_log, lockvars, xvars>>

AfterDirect(cs) ==
    IF cs.i < Len(cs.msgs) THEN [cs EXCEPT !.i = @ + 1, !.pc = "d_route"]
    ELSE [cs EXCEPT !.i = @ + 1, !.pc = "done"]

\* lines 416-424: check qnum, take the queue lock and read last_seq
SendDirectRoute(c) ==
    LET cs == call[c]
        m == cs.msgs[cs.i]
        k == <<cs.worker, m.qnum>>
    IN /\ cs.pc = "d_route"
       /\ IF m.qnum >= NumQueues[cs.worker]
          THEN /\ call' = [call EXCEPT ![c] = AfterDirect(cs)]
               /\ UNCHANGED queue_locks
          ELSE /\ CanAcquire(c, k)
               /\ queue_locks' = [queue_locks EXCEPT ![k] = c]
               /\ call' = [call EXCEPT ![c] =
                     [cs EXCEPT !.pc = "d_stamp", !.key = k, !.tmp = last_seq[k]]]
       /\ UNCHANGED <<last_seq, redis_q, stamp_log, nmsgs, lockvars, xvars>>

\* lines 424-425: write last_seq, stamp the message, release the lock
SendDirectStamp(c) ==
    LET cs == call[c]
        k == cs.key
        s == cs.tmp + 1
    IN /\ cs.pc = "d_stamp"
       /\ last_seq' = [last_seq EXCEPT ![k] = s]
       /\ stamp_log' = [stamp_log EXCEPT ![k] = Append(@, s)]
       /\ queue_locks' = [queue_locks EXCEPT ![k] = "free"]
       /\ call' = [call EXCEPT ![c] =
             [cs EXCEPT !.pc = "d_push", !.cur = <<[cs.msgs[cs.i] EXCEPT !.seq = s]>>]]
       /\ total_tx_msg' = increment_stats(total_tx_msg, k)
       /\ UNCHANGED <<redis_q, nmsgs, lockvars, redis_ok, lost, svars>>

\* lines 428-430: rpush the stamped message under the queue lock
SendDirectPush(c) ==
    LET cs == call[c]
        k == cs.key
    IN /\ cs.pc = "d_push"
       /\ CanAcquire(c, k)
       /\ redis_q' = IF redis_ok THEN [redis_q EXCEPT ![k] = Push(@, cs.cur[1], FALSE)]
                      ELSE redis_q
       /\ lost' = IF redis_ok THEN lost ELSE [lost EXCEPT ![k] = Append(@, cs.cur[1])]
       /\ call' = [call EXCEPT ![c] =
             AfterDirect([cs EXCEPT !.sent = IF redis_ok THEN [@ EXCEPT ![k] = Append(@, cs.cur[1])]
                                              ELSE @,
                                    !.cur = <<>>])]
       /\ UNCHANGED <<last_seq, queue_locks, stamp_log, nmsgs, lockvars, redis_ok, total_tx_msg, svars>>

\* the call returns to its caller
Return(c) ==
    /\ call[c].pc = "done"
    /\ call' = [call EXCEPT ![c] = Idle]
    /\ UNCHANGED <<last_seq, redis_q, queue_locks, stamp_log, nmsgs, lockvars, xvars>>

DispatchInit ==
    /\ last_seq = [k \in Keys |-> 0]
    /\ redis_q = [k \in Keys |-> <<>>]
    /\ queue_locks = [k \in Keys |-> "free"]
    /\ call = [c \in Threads |-> Idle]
    /\ stamp_log = [k \in Keys |-> <<>>]
    /\ nmsgs = 0
    /\ queue_stats_lock = "free"
    /\ manager_ctrl_channel_lock = "free"
    /\ lock_ops = [t \in LockThreads |-> [ops |-> <<>>, n |-> 0]]
    /\ queue_stats = [k \in QueueStatsKeys |-> 0]
    /\ stats_call = [t \in LockThreads |-> StatsIdle]
    /\ bcast_call = [t \in LockThreads |-> BcastIdle]
    /\ redis_ok = TRUE
    /\ lost = [k \in Keys |-> <<>>]
    /\ total_tx_msg = [k \in Keys |-> 0]
    /\ bg = [pc |-> "idle", qi |-> 1, msgs |-> <<>>]
    /\ handed = <<>>

----------------------------------------------------------------------------
(* send_msg and send_msg_direct run to completion, as one step of the caller *)

RECURSIVE StampAll(_, _, _)
\* lines 354-383 for msgs[i], msgs[i+1], ...: st = [ls, work, log]
StampAll(msgs, i, st) ==
    IF i > Len(msgs) THEN st
    ELSE LET m == msgs[i]
         IN IF ~Routable(m) THEN StampAll(msgs, i + 1, st)
            ELSE LET k == RouteKey(m)
                     s == st.ls[k] + 1
                 IN StampAll(msgs, i + 1,
                       [ls |-> [st.ls EXCEPT ![k] = s],
                        work |-> StampLast(AppendWork(st.work, k, [m EXCEPT !.qnum = k[2]]), k, s),
                        log |-> [st.log EXCEPT ![k] = Append(@, s)]])

RECURSIVE PushAll(_, _, _)
\* lines 390-404 for the bulks of one (worker_id, qnum)
PushAll(q, bulks, prepend) ==
    IF bulks = <<>> THEN q
    ELSE PushAll(Push(q, MakeEnvelope(Head(bulks)), prepend), Tail(bulks), prepend)

\* send_msg(msgs, prepend) on d = [ls, q, log]
send_msg(d, msgs, prepend) ==
    LET st == StampAll(msgs, 1, [ls |-> d.ls, work |-> EmptyWork, log |-> d.log])
    IN [ls |-> st.ls, log |-> st.log,
        q |-> [k \in Keys |-> PushAll(d.q[k], st.work[k], prepend)]]

\* send_msg_direct(worker, m) on d = [ls, q, log]
send_msg_direct(d, w, m) ==
    IF m.qnum >= NumQueues[w] THEN d
    ELSE LET k == <<w, m.qnum>>
             s == d.ls[k] + 1
         IN [ls |-> [d.ls EXCEPT ![k] = s],
             log |-> [d.log EXCEPT ![k] = Append(@, s)],
             q |-> [d.q EXCEPT ![k] = Push(@, [m EXCEPT !.seq = s], FALSE)]]

Disp == [ls |-> last_seq, q |-> redis_q, log |-> stamp_log]

SetDispCore(d) ==
    /\ last_seq' = d.ls
    /\ redis_q' = d.q
    /\ stamp_log' = d.log
    /\ total_tx_msg' = [k \in Keys |-> total_tx_msg[k] + Len(d.log[k]) - Len(stamp_log[k])]
    /\ UNCHANGED <<queue_locks, call, nmsgs, lockvars, redis_ok, lost>>

SetDisp(d) == SetDispCore(d) /\ UNCHANGED svars

----------------------------------------------------------------------------
(* broadcast, fabric events, hard_restart *)

BMsg(channel, wt, seq, cache) == [channel |-> channel, wt |-> wt, seq |-> seq, cache |-> cache]

\* every message goes to both channels, whatever its role
broadcastAllChannels(b, role, wt, cache) ==
    [b EXCEPT !.worker = @ + 1, !.watcher = @ + 1,
              !.log = @ \o <<BMsg(WORKER_BROADCAST_CHANNEL, wt, b.worker + 1, cache),
                             BMsg(WATCHER_BROADCAST_CHANNEL, wt, b.watcher + 1, cache)>>]

\* broadcast(eptMsgWork(0, role, data, wt)) on b = [log, worker, watcher]
broadcast(b, role, wt, cache) ==
    IF role = "watcher"
    THEN [b EXCEPT !.watcher = @ + 1,
                   !.log = Append(@, BMsg(WATCHER_BROADCAST_CHANNEL, wt, b.watcher + 1, cache))]
    ELSE IF role = "worker"
    THEN [b EXCEPT !.worker = @ + 1,
                   !.log = Append(@, BMsg(WORKER_BROADCAST_CHANNEL, wt, b.worker + 1, cache))]
    ELSE [b EXCEPT !.worker = @ + 1, !.watcher = @ + 1,
                   !.log = @ \o <<BMsg(WORKER_BROADCAST_CHANNEL, wt, b.worker + 1, cache),
                                  BMsg(WATCHER_BROADCAST_CHANNEL, wt, b.watcher + 1, cache)>>]

Bc == [log |-> published, worker |-> worker_broadcast_seq, watcher |-> watcher_broadcast_seq]

SetBc(b) ==
    /\ published' = b.log
    /\ worker_broadcast_seq' = b.worker
    /\ watcher_broadcast_seq' = b.watcher

\* fabric.add_fabric_event(status, description); src names the caller
FEvent(status, src) == [status |-> status, src |-> src]

TrackingFromStart == [active |-> TRUE, tracked |-> {}, acked |-> {}]

\* self.epm_eof_tracking = None
NoTracking == [active |-> FALSE, tracked |-> {}, acked |-> {}]

\* get_workers_with_pending_ack
get_workers_with_pending_ack(t) == IF t.active THEN t.tracked \ t.acked ELSE {}

\* self.subscriber.unsubscribe()
Unsubscribed == [alive |-> FALSE, subscribed |-> FALSE, slow_paused |-> FALSE,
                 epm_interest |-> FALSE, epm_paused |-> FALSE]

\* self.fabric.fabric
fabric == "fab1"

\* lines 781-783: eptMsg(MSG_TYPE.FABRIC_RESTART, data={fabric, reason})
RestartMsg(reason) ==
    [msg_type |-> "FABRIC_RESTART", fabric |-> fabric, reason |-> "restarting: " \o reason]

\* lines 774-779: unsubscribe() ends the subscriptions, or raises and leaves them
UnsubscribeIn(raised) == IF raised THEN sub ELSE Unsubscribed

hard_restartQuiet(evs, reason) ==
    /\ fabric_events' = fabric_events \o evs \o <<FEvent("restarting", reason)>>
    /\ stopped' = TRUE
    /\ \E raised \in BOOLEAN :
          /\ sub' = UnsubscribeIn(raised)
          /\ mgr_channel' = IF raised THEN mgr_channel
                            ELSE Append(mgr_channel, RestartMsg(reason))

\* hard_restart(reason), after the fabric events evs of the caller
hard_restart(evs, reason) ==
    /\ fabric_events' = fabric_events \o evs \o <<FEvent("restarting", reason)>>
    /\ stopped' = TRUE
    /\ \E raised \in BOOLEAN : sub' = UnsubscribeIn(raised)
    /\ mgr_channel' = Append(mgr_channel, RestartMsg(reason))

Running == main.pc # "exit"

----------------------------------------------------------------------------
(* The sub-main thread: _run *)

MainCarriesOn(evs) ==
    /\ main' = [main EXCEPT !.pc = "epm_done"]
    /\ sub' = sub
    /\ fabric_events' = fabric_events \o evs

\* lines 232-257: the BackgroundThreads run() starts before _run()
Tickers == {"sub-hello", "sub-stats", "sub-event"}

\* lines 267-274: what the finally block of run() releases after unsubscribe(),
\* in this order: the db connection, then hello_thread, bg_thread, stats_thread
TeardownSteps == <<"db", "sub-hello", "sub-event", "sub-stats">>

\* lines 265-266, the finally block of run(): unsubscribe() is not guarded, so
\* when it raises the statements after it (close the db, exit the threads) are skipped
RunFinally(m, raised) ==
    [m EXCEPT !.pc = "exit",
              !.td = IF raised THEN Len(TeardownSteps) + 1 ELSE 1]

\* the finally block of run() has run to its end, or was left by an exception
RunOver == main.pc = "exit" /\ main.td > Len(TeardownSteps)

\* lines 267-274: the next statement of the finally block
MainTeardown ==
    /\ main.pc = "exit"
    /\ main.td <= Len(TeardownSteps)
    /\ main' = [main EXCEPT !.td = @ + 1,
                            !.db_open = IF TeardownSteps[main.td] = "db" THEN FALSE ELSE @,
                            !.tickers = @ \ {TeardownSteps[main.td]}]
    /\ UNCHANGED <<dvars, flags, barrier, ev, ctrl, evq, bvars, world, logs>>

\* _run returns or raises, and run() goes through its finally block
MainExits(evs) ==
    /\ \E raised \in BOOLEAN :
          /\ main' = RunFinally(main, raised)
          /\ sub' = UnsubscribeIn(raised)
    /\ fabric_events' = fabric_events \o evs

\* lines 501-605: session, role, version and overlay-vnid validation; the last
\* step also reads pairT (lines 591-593) and keeps the old value when it gets none
PreSteps == <<"connect", "role", "version", "supported", "overlay">>

\* parse_apic_version(MINIMUM_SUPPORTED_VERSION)
MinVersion == [major |-> 2, minor |-> 2, build |-> 1, patch |-> "a"]

\* parse_apic_version returned None
NoVersion == [major |-> -1, minor |-> -1, build |-> -1, patch |-> "none"]

\* every component is compared on its own
MinMatchedEach(version, min_version) ==
    /\ version.major >= min_version.major
    /\ version.minor >= min_version.minor
    /\ version.build >= min_version.build

\* lines 557-564: min_matched
MinMatched(version, min_version) ==
    IF version.major < min_version.major THEN FALSE
    ELSE IF version.major = min_version.major
    THEN IF version.minor < min_version.minor THEN FALSE
         ELSE IF version.minor = min_version.minor
         THEN version.build >= min_version.build
         ELSE TRUE
    ELSE TRUE

\* lines 545-571: the first controller's version parses and is not below the minimum
VersionSupported ==
    /\ apic_version[1] # NoVersion
    /\ MinVersion # NoVersion
    /\ MinMatched(apic_version[1], MinVersion)

\* lines 535-540: the controllers run different versions
VersionMismatch == Cardinality({apic_version[j] : j \in 1..Len(apic_version)}) > 1

\* the fabric events of a validation step that passes
PreStepEvents(step) ==
    IF step = "role" THEN <<FEvent("initializing", step)>>
    ELSE IF step = "version"
    THEN (IF VersionMismatch THEN <<FEvent("warning", "version mismatch")>> ELSE <<>>)
            \o <<FEvent("initializing", step)>>
    ELSE <<>>

MainValidate ==
    /\ main.pc = "validate"
    /\ \E ok \in (IF PreSteps[main.i] = "supported" THEN {VersionSupported} ELSE BOOLEAN) :
         IF ok
         THEN /\ main' = IF main.i < Len(PreSteps) THEN [main EXCEPT !.i = @ + 1]
                         ELSE [main EXCEPT !.pc = "watch_pause", !.i = 1]
              /\ fabric_events' = fabric_events \o PreStepEvents(PreSteps[main.i])
              /\ \E got \in BOOLEAN :
                    vpc_pair_type' = IF PreSteps[main.i] = "overlay" /\ got
                                     THEN apic_pair_type ELSE vpc_pair_type
              /\ UNCHANGED <<sub, auto_start>>
         ELSE /\ MainExits(<<FEvent("failed", PreSteps[main.i])>>)
              /\ auto_start' = IF PreSteps[main.i] \in {"role", "supported"}
                               THEN FALSE ELSE auto_start
              /\ UNCHANGED vpc_pair_type
    /\ UNCHANGED <<dcore, bgvars, apic_pair_type, nodes, apic_version, history, epm_reply, flags, barrier, ev,
                   ctrl, evq, bvars, now, ctrl_listening, n_events, delivered, n_ctrl,
                   db_writes, mgr_channel, sr_log>>

MainWatchPauseSkipped ==
    /\ main.pc = "watch_pause"
    /\ main' = [main EXCEPT !.pc = "subscribe"]
    /\ UNCHANGED <<dvars, flags, barrier, ev, ctrl, evq, bvars, world, logs>>

\* line 609: broadcast FABRIC_WATCH_PAUSE to the watchers
MainWatchPause ==
    /\ main.pc = "watch_pause"
    /\ SetBc(broadcast(Bc, "watcher", "FABRIC_WATCH_PAUSE", "none"))
    /\ main' = [main EXCEPT !.pc = "subscribe"]
    /\ UNCHANGED <<dvars, flags, barrier, ev, ctrl, evq, world, logs>>

\* lines 612-624: pause the slow interests iff queue_init_events, then subscribe;
\* subscriber_is_alive() returns None, so a failure adds no fabric event here
MainSubscribe ==
    /\ main.pc = "subscribe"
    /\ \E ok \in BOOLEAN :
         IF ok
         THEN /\ sub' = [sub EXCEPT !.subscribed = TRUE,
                                    !.slow_paused = settings.queue_init_events]
              /\ main' = [main EXCEPT !.pc = "build", !.i = 1]
              /\ UNCHANGED fabric_events
         ELSE MainExits(<<>>)
    /\ UNCHANGED <<dvars, flags, barrier, ev, ctrl, evq, bvars, now, ctrl_listening,
                   n_events, delivered, n_ctrl, db_writes, mgr_channel, sr_log>>

\* the snapshot phases of lines 626-676, in order
Phases == <<"build_mo", "build_node_db", "build_vpc_db", "build_tunnel_db",
            "build_vnid_db", "build_epg_db", "build_subnet_db">>

\* the tables a phase (or a rebuild step of soft_restart) flushes and rewrites
TablesOf(p) ==
    CASE p = "build_mo" -> {"mo"}
      [] p = "build_node_db" -> {"eptNode"}
      [] p = "build_vpc_db" -> {"eptVpc", "eptPc"}
      [] p = "build_tunnel_db" -> {"eptTunnel"}
      [] p = "build_vnid_db" -> {"eptVnid"}
      [] p = "build_epg_db" -> {"eptEpg"}
      [] p = "build_subnet_db" -> {"eptSubnet"}
      [] OTHER -> {"mo"}

Tables == {"mo", "eptNode", "eptVpc", "eptPc", "eptTunnel", "eptVnid", "eptEpg", "eptSubnet",
           "eptHistory", "eptEndpoint"}

\* the tables written so far, after phase p
Rebuilt(w, p) == w \cup TablesOf(p)

\* the fabric event a phase starts with; build_vpc_db has none of its own
PhaseEvent(p) == IF p = "build_vpc_db" THEN <<>> ELSE <<FEvent("initializing", p)>>

\* subscriber_is_alive() follows every phase but build_node_db
AliveCheckAfter(p) == p # "build_node_db"

\* lines 626-676: one snapshot phase and the liveness check after it
MainBuild ==
    /\ main.pc = "build"
    /\ LET p == Phases[main.i]
       IN \E ok \in BOOLEAN :
            IF ~ok
            THEN /\ MainExits(PhaseEvent(p) \o <<FEvent("failed", p)>>)
                 /\ UNCHANGED db_writes
            ELSE /\ db_writes' = Rebuilt(db_writes, p)
                 /\ IF AliveCheckAfter(p) /\ ~sub.alive
                    THEN MainExits(PhaseEvent(p))
                    ELSE /\ fabric_events' = fabric_events \o PhaseEvent(p)
                         /\ main' = IF main.i < Len(Phases) THEN [main EXCEPT !.i = @ + 1]
                                    ELSE [main EXCEPT !.pc = "init_done"]
                         /\ UNCHANGED sub
    /\ UNCHANGED <<dvars, flags, barrier, ev, ctrl, evq, bvars, now, ctrl_listening,
                   n_events, delivered, n_ctrl, mgr_channel, sr_log>>

\* lines 679-681: slow objects are initialized, resume the slow interests
MainInitDone ==
    /\ main.pc = "init_done"
    /\ initializing' = FALSE
    /\ sub' = [sub EXCEPT !.slow_paused = FALSE]
    /\ main' = [main EXCEPT !.pc = "build_endpoint_db"]
    /\ UNCHANGED <<dvars, epm_initializing, stopped, soft_restart_ts, settings, barrier,
                   ev, ctrl, evq, bvars, now, ctrl_listening, n_events, delivered, n_ctrl, logs>>

\* epm_parser.parse(classname, attr, ts) of an object the targeted query returned
EpmCreate(classname, node, vnid, addr) ==
    [Msg("EPM_EVENT", "worker", vnid, addr, 0) EXCEPT
        !.classname = classname, !.node = node, !.status = "created"]

\* lines 198-202: self.epm_subscription_classes
EpmClasses == <<"epmRsMacEpToIpEpAtt", "epmIpEp", "epmMacEp">>

\* one item of a streamed class query: an object with attributes ("obj"), an
\* object without ("invalid"), or None after a failed request
EpmObj(kind, addr) == [kind |-> kind, addr |-> addr]

\* the fabric holds one ip endpoint and one mac endpoint, both on leaf 101
EpmReplyDefault ==
    [c \in {EpmClasses[j] : j \in 1..Len(EpmClasses)} |->
        IF c = "epmIpEp" THEN <<EpmObj("obj", 1)>>
        ELSE IF c = "epmMacEp" THEN <<EpmObj("obj", 0)>>
        ELSE <<>>]

\* the create jobs of that fabric, in the order build_endpoint_db makes them
CreateMsgs == <<EpmCreate("epmIpEp", 101, 1, 1), EpmCreate("epmMacEp", 101, 1, 0)>>

\* epm_parser.get_delete_event(classname, node, vnid, addr, ts)
get_delete_event(classname, node, vnid, addr) ==
    [Msg("EPM_EVENT", "worker", vnid, addr, 0) EXCEPT
        !.classname = classname, !.node = node, !.status = "deleted"]

\* lines 1574-1576: endpoints[msg.node][msg.vnid][msg.addr] = 1 for every create
EndpointsOf(create_msgs) ==
    {<<create_msgs[j].node, create_msgs[j].vnid, create_msgs[j].addr>> :
        j \in 1..Len(create_msgs)}

\* get_epm_delete_msgs called without addr and vnid
NoFlt == [addr |-> -1, vnid |-> -1]

\* lines 1690-1696: events.0.status is not deleted, and addr and vnid when both are given
FltMatches(obj, flt) ==
    /\ obj.status # "deleted"
    /\ flt # NoFlt => (obj.addr = flt.addr /\ obj.vnid = flt.vnid)

\* a MAC entry is deleted like an IP entry, with the two IP classes
DeleteEventsAllIp(obj) ==
    <<get_delete_event("epmRsMacEpToIpEpAtt", obj.node, obj.vnid, obj.addr),
      get_delete_event("epmIpEp", obj.node, obj.vnid, obj.addr)>>

\* lines 1704-1718: the delete events of one document
DeleteEvents(obj) ==
    IF obj.type = "mac"
    THEN <<get_delete_event("epmMacEp", obj.node, obj.vnid, obj.addr)>>
    ELSE <<get_delete_event("epmRsMacEpToIpEpAtt", obj.node, obj.vnid, obj.addr),
           get_delete_event("epmIpEp", obj.node, obj.vnid, obj.addr)>>

RECURSIVE get_epm_delete_msgs(_, _, _)
\* lines 1699-1718 over the documents h: nothing for one found in endpoints
get_epm_delete_msgs(h, endpoints, flt) ==
    IF h = <<>> THEN <<>>
    ELSE LET obj == Head(h)
         IN (IF FltMatches(obj, flt) /\ <<obj.node, obj.vnid, obj.addr>> \notin endpoints
             THEN DeleteEvents(obj) ELSE <<>>)
            \o get_epm_delete_msgs(Tail(h), endpoints, flt)

\* what build_endpoint_db does, in order: add_interest(classname, paused) with
\* its result, an object taken from the stream of classname, send_msg(msgs)
TraceOp(op, classname, paused, ok, msgs) ==
    [op |-> op, classname |-> classname, paused |-> paused, ok |-> ok, msgs |-> msgs]

SendOp(msgs) == TraceOp("send_msg", "none", FALSE, TRUE, msgs)

CreateBatchUnbounded(create_msgs) == FALSE

\* line 1580: len(create_msgs) >= MAX_SEND_MSG_LENGTH
CreateBatchFull(create_msgs) == Len(create_msgs) >= MAX_SEND_MSG_LENGTH

RECURSIVE StreamObjects(_, _, _)
\* lines 1565-1586: the objects of the stream of class c, one by one
StreamObjects(c, objs, st) ==
    IF objs = <<>> THEN st
    ELSE LET obj == Head(objs)
             seen == [st EXCEPT !.ops = Append(@, TraceOp("object", c, FALSE,
                                                          obj.kind # "None", <<>>))]
         IN IF obj.kind = "None" THEN [seen EXCEPT !.ok = FALSE]
            ELSE IF obj.kind = "invalid" THEN StreamObjects(c, Tail(objs), seen)
            ELSE LET msg == EpmCreate(c, 101, 1, obj.addr)
                     create_msgs == Append(st.create_msgs, msg)
                     parsed == [seen EXCEPT !.created = Append(@, msg)]
                 IN IF CreateBatchFull(create_msgs)
                    THEN StreamObjects(c, Tail(objs),
                            [parsed EXCEPT !.ops = Append(@, SendOp(create_msgs)),
                                           !.create_msgs = <<>>])
                    ELSE StreamObjects(c, Tail(objs),
                            [parsed EXCEPT !.create_msgs = create_msgs])

RECURSIVE StreamClasses(_, _, _, _, _)
\* lines 1554-1596: per class, add the interest, stream the query, send the rest
StreamClasses(cs, reply, interest_ok, paused, st) ==
    IF cs = <<>> THEN st
    ELSE LET c == Head(cs)
             added == [st EXCEPT !.ops = Append(@, TraceOp("add_interest", c, paused,
                                                           interest_ok[c], <<>>)),
                                 !.create_msgs = <<>>]
         IN IF ~interest_ok[c] THEN [added EXCEPT !.ok = FALSE]
            ELSE LET streamed == StreamObjects(c, reply[c], added)
                 IN IF ~streamed.ok THEN streamed
                    ELSE StreamClasses(Tail(cs), reply, interest_ok, paused,
                            IF Len(streamed.create_msgs) > 0
                            THEN [streamed EXCEPT
                                     !.ops = Append(@, SendOp(streamed.create_msgs)),
                                     !.create_msgs = <<>>]
                            ELSE streamed)

RECURSIVE SendChunks(_)
\* lines 1598-1610: the delete jobs go out MAX_SEND_MSG_LENGTH at a time
SendChunks(msgs) ==
    IF msgs = <<>> THEN <<>>
    ELSE LET n == IF Len(msgs) < MAX_SEND_MSG_LENGTH THEN Len(msgs) ELSE MAX_SEND_MSG_LENGTH
         IN <<SendOp(SubSeq(msgs, 1, n))>> \o SendChunks(SubSeq(msgs, n + 1, Len(msgs)))

\* lines 1535-1617: build_endpoint_db over the streams reply and the documents
\* h; ok is its return value, ops what it did, created the parsed objects
build_endpoint_db(reply, interest_ok, paused, h) ==
    LET st == StreamClasses(EpmClasses, reply, interest_ok, paused,
                            [ok |-> TRUE, ops |-> <<>>, create_msgs |-> <<>>,
                             created |-> <<>>])
    IN IF ~st.ok THEN st
       ELSE [st EXCEPT !.ops = @ \o SendChunks(get_epm_delete_msgs(h,
                                                  EndpointsOf(st.created), NoFlt))]

RECURSIVE ApplySends(_, _)
\* the send_msg calls of ops, in order, on dispatcher state d
ApplySends(d, ops) ==
    IF ops = <<>> THEN d
    ELSE ApplySends(IF Head(ops).op = "send_msg" THEN send_msg(d, Head(ops).msgs, FALSE)
                    ELSE d, Tail(ops))

\* the result of add_interest for each EPM class
InterestResults == [{EpmClasses[j] : j \in 1..Len(EpmClasses)} -> BOOLEAN]

\* lines 684-692: build_endpoint_db, then the liveness check
MainBuildEndpointDb ==
    /\ main.pc = "build_endpoint_db"
    /\ \E interest_ok \in InterestResults :
         LET r == build_endpoint_db(epm_reply, interest_ok,
                                    settings.queue_init_epm_events, history)
             m == [main EXCEPT !.trace = r.ops]
         IN /\ SetDisp(ApplySends(Disp, r.ops))
            /\ IF ~r.ok
               THEN /\ \E raised \in BOOLEAN :
                         /\ main' = RunFinally(m, raised)
                         /\ sub' = UnsubscribeIn(raised)
                    /\ fabric_events' = fabric_events \o
                          <<FEvent("initializing", "build_endpoint_db"),
                            FEvent("failed", "build_endpoint_db")>>
               ELSE /\ fabric_events' = fabric_events \o
                          <<FEvent("initializing", "build_endpoint_db"),
                            FEvent("initializing", "analyzing")>>
                    /\ IF ~sub.alive
                       THEN \E raised \in BOOLEAN :
                               /\ main' = RunFinally(m, raised)
                               /\ sub' = UnsubscribeIn(raised)
                       ELSE /\ sub' = [sub EXCEPT !.epm_interest = TRUE,
                                                  !.epm_paused =
                                                     settings.queue_init_epm_events]
                            /\ main' = [m EXCEPT !.pc = "epm_done"]
    /\ UNCHANGED <<flags, barrier, ev, ctrl, evq, bvars, now, ctrl_listening,
                   n_events, delivered, n_ctrl, db_writes, mgr_channel, sr_log>>

\* lines 695-697: epm objects are initialized, resume the EPM interests
MainEpmDone ==
    /\ main.pc = "epm_done"
    /\ epm_initializing' = FALSE
    /\ sub' = [sub EXCEPT !.epm_paused = FALSE]
    /\ main' = [main EXCEPT !.pc = "ctrl_subscribe"]
    /\ UNCHANGED <<dvars, initializing, stopped, soft_restart_ts, settings, barrier,
                   ev, ctrl, evq, bvars, now, ctrl_listening, n_events, delivered, n_ctrl, logs>>

MainCtrlSubscribeSkipped ==
    /\ main.pc = "ctrl_subscribe"
    /\ main' = [main EXCEPT !.pc = "eof_start"]
    /\ UNCHANGED <<dvars, flags, barrier, ev, ctrl, evq, bvars, world, logs>>

\* lines 700-707: listen on SUBSCRIBER_CTRL_CHANNEL
MainCtrlSubscribe ==
    /\ main.pc = "ctrl_subscribe"
    /\ ctrl_listening' = TRUE
    /\ main' = [main EXCEPT !.pc = "eof_start"]
    /\ UNCHANGED <<dvars, flags, barrier, ev, ctrl, evq, bvars, now, sub,
                   n_events, delivered, n_ctrl, logs>>

\* lines 711-712: start tracking with an empty dict
MainEofStart ==
    /\ main.pc = "eof_start"
    /\ epm_eof_start' = now
    /\ epm_eof_tracking' = [active |-> TRUE, tracked |-> {}, acked |-> {}]
    /\ main' = [main EXCEPT !.pc = "eof_send", !.i = 1]
    /\ UNCHANGED <<dvars, flags, ev, ctrl, evq, bvars, world, logs>>

\* eptMsgWork("", "worker", {}, WORK_TYPE.FABRIC_EPM_EOF, qnum=0)
EofMsg == Msg("FABRIC_EPM_EOF", "worker", 0, 0, 0)

\* lines 713-724: track one more worker and send it the EOF marker; the item
\* assignment raises TypeError when tracking was set to None meanwhile
MainEofSend ==
    /\ main.pc = "eof_send"
    /\ IF main.i > Len(active_workers["worker"])
       THEN /\ main' = [main EXCEPT !.pc = "loop"]
            /\ fabric_events' = Append(fabric_events, FEvent("initializing", "eof sent"))
            /\ UNCHANGED <<dvars, epm_eof_tracking, sub>>
       ELSE IF ~epm_eof_tracking.active
       THEN /\ MainExits(<<>>)
            /\ UNCHANGED <<dvars, epm_eof_tracking>>
       ELSE LET w == active_workers["worker"][main.i]
            IN /\ epm_eof_tracking' = [epm_eof_tracking EXCEPT !.tracked = @ \cup {w},
                                                               !.acked = @ \ {w}]
               /\ SetDisp(send_msg_direct(Disp, w, EofMsg))
               /\ main' = [main EXCEPT !.i = @ + 1]
               /\ UNCHANGED <<fabric_events, sub>>
    /\ UNCHANGED <<flags, epm_eof_start, ev, ctrl, evq, bvars, now, ctrl_listening,
                   n_events, delivered, n_ctrl, db_writes, mgr_channel, sr_log>>

DeadlineIgnored == FALSE

TimedOutEarly == epm_eof_start <= now

\* line 733: self.epm_eof_start + MAX_EPM_BUILD_TIME <= ts
TimedOut == epm_eof_start + MAX_EPM_BUILD_TIME <= now

\* lines 728-733: liveness check, then the test of the EPM EOF timeout
MainLoopCheck ==
    /\ main.pc = "loop"
    /\ IF ~sub.alive
       THEN MainExits(<<>>)
       ELSE /\ epm_eof_tracking.active
            /\ TimedOut
            /\ main' = [main EXCEPT !.pc = "timeout_warn"]
            /\ UNCHANGED <<sub, fabric_events>>
    /\ UNCHANGED <<dvars, flags, barrier, ev, ctrl, evq, bvars, now, ctrl_listening,
                   n_events, delivered, n_ctrl, db_writes, mgr_channel, sr_log>>

\* lines 734-739: the warning event names the workers still pending
MainTimeoutWarn ==
    /\ main.pc = "timeout_warn"
    /\ main' = [main EXCEPT !.pc = "timeout_resume",
                            !.pending = get_workers_with_pending_ack(epm_eof_tracking)]
    /\ fabric_events' = Append(fabric_events, FEvent("warning", "timeout"))
    /\ UNCHANGED <<dvars, flags, barrier, ev, ctrl, evq, bvars, world, db_writes,
                   mgr_channel, sr_log>>

\* line 742: broadcast FABRIC_WATCH_RESUME
MainTimeoutResume ==
    /\ main.pc = "timeout_resume"
    /\ SetBc(broadcast(Bc, "watcher", "FABRIC_WATCH_RESUME", "none"))
    /\ main' = [main EXCEPT !.pc = "timeout_clear"]
    /\ UNCHANGED <<dvars, flags, barrier, ev, ctrl, evq, world, logs>>

\* line 743: self.epm_eof_tracking = None
MainTimeoutClear ==
    /\ main.pc = "timeout_clear"
    /\ epm_eof_tracking' = NoTracking
    /\ main' = [main EXCEPT !.pc = "timeout_running"]
    /\ UNCHANGED <<dvars, flags, epm_eof_start, ev, ctrl, evq, bvars, world, logs>>

\* line 744: add_fabric_event("running"), then sleep
MainTimeoutRunning ==
    /\ main.pc = "timeout_running"
    /\ fabric_events' = Append(fabric_events, FEvent("running", "timeout"))
    /\ main' = [main EXCEPT !.pc = "loop"]
    /\ UNCHANGED <<dvars, flags, barrier, ev, ctrl, evq, bvars, world, db_writes,
                   mgr_channel, sr_log>>

MainStep ==
    \/ MainValidate
    \/ MainWatchPause
    \/ MainSubscribe
    \/ MainBuild
    \/ MainInitDone
    \/ MainBuildEndpointDb
    \/ MainEpmDone
    \/ MainCtrlSubscribe
    \/ MainEofStart
    \/ MainEofSend
    \/ MainLoopCheck
    \/ MainTeardown
    \/ MainTimeoutWarn
    \/ MainTimeoutResume
    \/ MainTimeoutClear
    \/ MainTimeoutRunning

\* _run up to the steady-state loop and its liveness check, while no time passes
BootStep ==
    \/ MainValidate
    \/ MainWatchPause
    \/ MainSubscribe
    \/ MainBuild
    \/ MainInitDone
    \/ MainBuildEndpointDb
    \/ MainEpmDone
    \/ MainCtrlSubscribe
    \/ MainEofStart
    \/ MainEofSend
    \/ MainLoopCheck
    \/ MainTeardown

\* time passes: the clock is read only against epm_eof_start, so it runs from
\* the moment that is set and is capped where its value no longer matters
Tick ==
    /\ Running
    /\ epm_eof_start >= 0
    /\ now < epm_eof_start + MAX_EPM_BUILD_TIME + 1
    /\ now' = now + 1
    /\ UNCHANGED <<dvars, flags, barrier, threads, evq, bvars, sub, ctrl_listening,
                   n_events, delivered, n_ctrl, logs>>

----------------------------------------------------------------------------
(* The control-channel thread: handle_channel_msg, handle_subscriber_ctrl *)

\* the FABRIC_EPM_EOF marker was put on queue 0 of worker w
EofSentTo(w) ==
    /\ <<w, 0>> \in Keys
    /\ \E j \in 1..Len(redis_q[<<w, 0>>]) : redis_q[<<w, 0>>][j].wt = "FABRIC_EPM_EOF"

\* senders of FABRIC_EPM_EOF_ACK: a worker that got the marker, or a stranger
AckSenders == {w \in DOMAIN NumQueues : EofSentTo(w)} \cup {"zz"}

\* the listener thread takes the next of at most max messages
CtrlGuard(max) ==
    /\ Running
    /\ ctrl_listening
    /\ ctrl.pc = "idle"
    /\ n_ctrl < max
    /\ n_ctrl' = n_ctrl + 1

\* lines 470-472: a FABRIC_EPM_EOF_ACK is received
CtrlAckReceive ==
    /\ CtrlGuard(MaxAcks)
    /\ \E a \in AckSenders : ctrl' = [pc |-> "ack_check", addr |-> a]
    /\ UNCHANGED <<dvars, flags, barrier, main, ev, evq, bvars, now, sub, ctrl_listening,
                   n_events, delivered, logs>>

\* line 473: if self.epm_eof_tracking is not None
CtrlAckCheck ==
    /\ ctrl.pc = "ack_check"
    /\ ctrl' = [ctrl EXCEPT !.pc = IF epm_eof_tracking.active THEN "ack_mark" ELSE "idle"]
    /\ UNCHANGED <<dvars, flags, barrier, main, ev, evq, bvars, world, logs>>

\* lines 474-477: mark the ack; "in None" raises TypeError, which
\* handle_channel_msg catches
CtrlAckMark ==
    /\ ctrl.pc = "ack_mark"
    /\ IF ~epm_eof_tracking.active
       THEN /\ ctrl' = [ctrl EXCEPT !.pc = "idle"]
            /\ UNCHANGED epm_eof_tracking
       ELSE /\ ctrl' = [ctrl EXCEPT !.pc = "ack_pending"]
            /\ epm_eof_tracking' =
                  IF ctrl.addr \in epm_eof_tracking.tracked
                  THEN [epm_eof_tracking EXCEPT !.acked = @ \cup {ctrl.addr}]
                  ELSE epm_eof_tracking
    /\ UNCHANGED <<dvars, flags, epm_eof_start, main, ev, evq, bvars, world, logs>>

\* lines 479-480: pending = self.get_workers_with_pending_ack()
CtrlAckPending ==
    /\ ctrl.pc = "ack_pending"
    /\ ctrl' = [ctrl EXCEPT !.pc = IF get_workers_with_pending_ack(epm_eof_tracking) = {}
                                   THEN "ack_resume" ELSE "idle"]
    /\ UNCHANGED <<dvars, flags, barrier, main, ev, evq, bvars, world, logs>>

\* line 484: broadcast FABRIC_WATCH_RESUME
CtrlAckResume ==
    /\ ctrl.pc = "ack_resume"
    /\ SetBc(broadcast(Bc, "watcher", "FABRIC_WATCH_RESUME", "none"))
    /\ ctrl' = [ctrl EXCEPT !.pc = "ack_clear"]
    /\ UNCHANGED <<dvars, flags, barrier, main, ev, evq, world, logs>>

\* line 485: self.epm_eof_tracking = None
CtrlAckClear ==
    /\ ctrl.pc = "ack_clear"
    /\ epm_eof_tracking' = NoTracking
    /\ ctrl' = [ctrl EXCEPT !.pc = "ack_running"]
    /\ UNCHANGED <<dvars, flags, epm_eof_start, main, ev, evq, bvars, world, logs>>

\* line 486: add_fabric_event("running")
CtrlAckRunning ==
    /\ ctrl.pc = "ack_running"
    /\ fabric_events' = Append(fabric_events, FEvent("running", "ack"))
    /\ ctrl' = [ctrl EXCEPT !.pc = "idle"]
    /\ UNCHANGED <<dvars, flags, barrier, main, ev, evq, bvars, world, db_writes,
                   mgr_channel, sr_log>>

\* lines 458-462: DELETE_EPT becomes work for a worker
CtrlDeleteEpt ==
    /\ CtrlGuard(MaxCtrl)
    /\ \E a \in 0..1 : SetDisp(send_msg(Disp, <<Msg("DELETE_EPT", "worker", 1, a, 0)>>, FALSE))
    /\ UNCHANGED <<flags, barrier, threads, evq, bvars, now, sub, ctrl_listening,
                   n_events, delivered, logs>>

\* lines 463-469: SETTINGS_RELOAD is broadcast to every role
CtrlSettingsReload ==
    /\ CtrlGuard(MaxCtrl)
    /\ SetBc(broadcast(Bc, "all", "SETTINGS_RELOAD", "none"))
    /\ UNCHANGED <<dvars, flags, barrier, threads, evq, now, sub, ctrl_listening,
                   n_events, delivered, logs>>

\* lines 1626-1640: what the controller may return for the endpoint: nothing, the
\* endpoint on leaf 101, or on leaves 101 and 102
RefreshReplies(vnid, addr, addr_type) ==
    LET c == IF addr_type = "mac" THEN "epmMacEp" ELSE "epmIpEp"
    IN {<<>>, <<EpmCreate(c, 101, vnid, addr)>>,
        <<EpmCreate(c, 101, vnid, addr), EpmCreate(c, 102, vnid, addr)>>}

\* the messages go out as they are
ForceNone(msgs) == msgs

\* lines 1668-1669: msg.force = True for each message
ForceAll(msgs) == [j \in 1..Len(msgs) |-> [msgs[j] EXCEPT !.force = TRUE]]

\* lines 456-457, 1619-1673: refresh_endpoint sends forced work with prepend:
\* refresh_endpoint(vnid, addr, addr_type), the query having returned objects,
\* or None when ok is false
RefreshEndpoint(vnid, addr, addr_type, ok, objects) ==
    /\ CtrlGuard(MaxCtrl)
    /\ IF ok
       THEN LET create_msgs == objects
                delete_msgs == get_epm_delete_msgs(history, EndpointsOf(create_msgs),
                                                   [addr |-> addr, vnid |-> vnid])
            IN SetDisp(send_msg(Disp, ForceAll(create_msgs \o delete_msgs), TRUE))
       ELSE UNCHANGED dvars
    /\ UNCHANGED <<flags, barrier, threads, evq, bvars, now, sub, ctrl_listening,
                   n_events, delivered, logs>>

\* line 456-457: a REFRESH_EPT request for this fabric
CtrlRefreshEpt ==
    \E vnid \in 1..2, addr \in 0..1, addr_type \in {"mac", "ip"}, ok \in BOOLEAN :
       \E objects \in RefreshReplies(vnid, addr, addr_type) :
          RefreshEndpoint(vnid, addr, addr_type, ok, objects)

CtrlStep ==
    \/ CtrlAckCheck
    \/ CtrlAckMark
    \/ CtrlAckPending
    \/ CtrlAckResume
    \/ CtrlAckClear
    \/ CtrlAckRunning

----------------------------------------------------------------------------
(* Subscription callbacks: handle_event, handle_std_mo_event, handle_epm_event *)

\* work made from an event of the subscription layer (data 1: an event)
EventMsg(wt, role, vnid, addr) == [Msg(wt, role, vnid, addr, 0) EXCEPT !.data = 1]

\* the subscription layer calls callback h: what the callback finds at its entry
Deliver(h) ==
    delivered' = delivered \cup {[h |-> h, stopped |-> stopped, initializing |-> initializing,
                                  epm_initializing |-> epm_initializing]}

\* a slow (non-EPM) event is delivered to its callback
SlowGuard ==
    /\ Running
    /\ ev.pc = "idle"
    /\ sub.alive
    /\ sub.subscribed
    /\ ~sub.slow_paused
    /\ n_events < MaxEvents
    /\ n_events' = n_events + 1

HandleEventIgnoresStopped == ~initializing

\* lines 880-889: handle_event drops when stopped or initializing
\* handle_event without the test of line 883
HandleEventIgnoresInitializing == ~stopped

HandleEventAccepts == ~stopped /\ ~initializing

StdMoAcceptsInitializing == ~stopped

\* lines 907-916: handle_std_mo_event drops when stopped or initializing
StdMoAccepts == ~stopped /\ ~initializing

EpmAcceptsBySlowFlag == ~stopped /\ ~initializing

\* lines 936-945: handle_epm_event drops when stopped or epm_initializing
EpmAccepts == ~stopped /\ ~epm_initializing

\* lines 900-930: a slow MO event is queued for the batcher
handle_std_mo_event ==
    /\ SlowGuard
    /\ Deliver("handle_std_mo_event")
    /\ std_mo_event_queue' =
          IF StdMoAccepts
          THEN Append(std_mo_event_queue, EventMsg("STD_MO", "watcher", 0, 0))
          ELSE std_mo_event_queue
    /\ UNCHANGED <<dvars, flags, barrier, threads, epm_event_queue, bvars, now, sub,
                   ctrl_listening, n_ctrl, logs>>

\* lines 932-961: an EPM event is parsed and queued for the batcher
handle_epm_event ==
    /\ Running
    /\ sub.alive
    /\ sub.epm_interest
    /\ ~sub.epm_paused
    /\ n_events < MaxEvents
    /\ n_events' = n_events + 1
    /\ Deliver("handle_epm_event")
    /\ \E a \in 0..1 :
         epm_event_queue' =
            IF EpmAccepts
            THEN Append(epm_event_queue, EventMsg("EPM_EVENT", "worker", 1, a))
            ELSE epm_event_queue
    /\ UNCHANGED <<dvars, flags, barrier, threads, std_mo_event_queue, bvars, now, sub,
                   ctrl_listening, n_ctrl, logs>>

\* lines 963-972: the batcher drains the slow queue, then the EPM queue
handle_background_event_queue ==
    /\ Running
    /\ std_mo_event_queue # <<>> \/ epm_event_queue # <<>>
    /\ SetDisp(send_msg(send_msg(Disp, std_mo_event_queue, FALSE), epm_event_queue, FALSE))
    /\ std_mo_event_queue' = <<>>
    /\ epm_event_queue' = <<>>
    /\ UNCHANGED <<flags, barrier, threads, bvars, world, logs>>

\* the queues a tick visits, in this order (line 967)
BgQueues == <<"std_mo_event_queue", "epm_event_queue">>

BgQueue(i) == IF BgQueues[i] = "std_mo_event_queue" THEN std_mo_event_queue ELSE epm_event_queue

\* BackgroundThread calls handle_background_event_queue: msgs = [] for the first queue
BgTick ==
    /\ Running
    /\ bg.pc = "idle"
    /\ bg' = [pc |-> "empty", qi |-> 1, msgs |-> <<>>]
    /\ UNCHANGED <<dcore, handed, notbg, fvars>>

\* line 969: while not q.empty()
BgEmpty ==
    /\ bg.pc = "empty"
    /\ bg' = [bg EXCEPT !.pc = IF BgQueue(bg.qi) = <<>> THEN "send" ELSE "get"]
    /\ UNCHANGED <<dcore, handed, notbg, fvars>>

\* line 970: msgs.append(q.get()); this thread is the only consumer
BgGet ==
    /\ bg.pc = "get"
    /\ BgQueue(bg.qi) # <<>>
    /\ bg' = [bg EXCEPT !.pc = "empty", !.msgs = Append(@, Head(BgQueue(bg.qi)))]
    /\ IF BgQueues[bg.qi] = "std_mo_event_queue"
       THEN std_mo_event_queue' = Tail(std_mo_event_queue) /\ UNCHANGED epm_event_queue
       ELSE epm_event_queue' = Tail(epm_event_queue) /\ UNCHANGED std_mo_event_queue
    /\ UNCHANGED <<dcore, handed, notbg, flags, barrier, threads, bvars, world, logs>>

\* the drained list is handed over although it is empty
BgHandsOver(msgs) == TRUE

\* line 971: if len(msgs) > 0
BgHasWork(msgs) == Len(msgs) > 0

\* lines 971-972: send_msg(msgs) for a non-empty list, then the next queue
BgSend ==
    /\ bg.pc = "send"
    /\ IF BgHasWork(bg.msgs)
       THEN /\ SetDispCore(send_msg(Disp, bg.msgs, FALSE))
            /\ handed' = Append(handed, [q |-> BgQueues[bg.qi], msgs |-> bg.msgs])
       ELSE UNCHANGED <<dcore, handed>>
    /\ bg' = IF bg.qi < Len(BgQueues) THEN [pc |-> "empty", qi |-> bg.qi + 1, msgs |-> <<>>]
             ELSE [pc |-> "idle", qi |-> 1, msgs |-> <<>>]
    /\ UNCHANGED <<notbg, fvars>>

BgStep == BgTick \/ BgEmpty \/ BgGet \/ BgSend

\* the values of fabricProtPol.pairT
PairTypes == {"explicit", "consecutive"}

ProtPolReasonNewOnly(old, new) == "fabricProtPol changed to " \o new

\* line 1467: "fabricProtPol changed from %s to %s"
ProtPolReason(old, new) == "fabricProtPol changed from " \o old \o " to " \o new

\* lines 1463-1471 for an event with attr["pairT"] = pairT ("absent": no such
\* attribute, the KeyError of line 1465 ends in the except of handle_event)
HandleFabricProtPol(pairT) ==
    /\ SlowGuard
    /\ Deliver("handle_event")
    /\ IF HandleEventAccepts /\ pairT # "absent" /\ pairT # vpc_pair_type
       THEN hard_restart(<<>>, ProtPolReason(vpc_pair_type, pairT))
       ELSE UNCHANGED <<fabric_events, stopped, sub, mgr_channel>>
    /\ UNCHANGED <<dvars, initializing, epm_initializing, soft_restart_ts, settings, barrier,
                   threads, evq, bvars, now, ctrl_listening, n_ctrl, db_writes, sr_log>>

\* a fabricProtPol event is delivered
handle_fabric_prot_pol == \E pairT \in PairTypes \cup {"absent"} : HandleFabricProtPol(pairT)

\* the nodes of the fabric: a leaf and a spine in eptNode, and one not in it;
\* 0 stands for a dn that holds no node id
NodeIds == {101, 201, 301}

NodeNames == {"leaf101", "renamed"}

\* the eptNode table after build_node_db
NodeTable ==
    [n \in NodeIds |->
        CASE n = 101 -> [exists |-> TRUE, role |-> "leaf", name |-> "leaf101"]
          [] n = 201 -> [exists |-> TRUE, role |-> "spine", name |-> "spine201"]
          [] OTHER -> [exists |-> FALSE, role |-> "none", name |-> "none"]]

\* line 1512: "leaf '%s' became active"
LeafActiveReason(node) == "leaf '" \o ToString(node) \o "' became active"

\* line 1529: "new leaf '%s' became active"
NewLeafReason(node) == "new leaf '" \o ToString(node) \o "' became active"

\* lines 1514-1519: eptMsgWorkWatchNode("1", "watcher", {}, WORK_TYPE.WATCH_NODE)
WatchNodeMsg == EventMsg("WATCH_NODE", "watcher", 0, 1)

\* any role is taken for a leaf
IsLeafAny(role) == TRUE

\* lines 1504, 1528: the role is "leaf"
IsLeaf(role) == role = "leaf"

\* lines 1478-1533 for an event on node (0: no node id in the dn) with
\* fabricSt = status and name = name ("none": attribute absent); role is what
\* get_attributes returns for a node that is not in eptNode
HandleFabricNode(node, status, name, role) ==
    /\ SlowGuard
    /\ Deliver("handle_event")
    /\ IF ~HandleEventAccepts \/ node = 0
       THEN UNCHANGED <<dvars, fabric_events, stopped, sub, mgr_channel>>
       ELSE /\ nodes' = IF name # "none" /\ nodes[node].exists /\ nodes[node].name # name
                        THEN [nodes EXCEPT ![node].name = name] ELSE nodes
            /\ UNCHANGED <<bgvars, ppvars, vvars, history, epm_reply>>
            /\ IF status = "none"
               THEN UNCHANGED <<dcore, fabric_events, stopped, sub, mgr_channel>>
               ELSE IF nodes[node].exists
               THEN IF ~IsLeaf(nodes[node].role)
                    THEN UNCHANGED <<dcore, fabric_events, stopped, sub, mgr_channel>>
                    ELSE IF status = "active"
                    THEN /\ hard_restart(<<>>, LeafActiveReason(node))
                         /\ UNCHANGED dcore
                    ELSE /\ SetDispCore(send_msg(Disp, <<WatchNodeMsg>>, FALSE))
                         /\ UNCHANGED <<fabric_events, stopped, sub, mgr_channel>>
               ELSE IF status = "active" /\ IsLeaf(role)
                    THEN /\ hard_restart(<<>>, NewLeafReason(node))
                         /\ UNCHANGED dcore
                    ELSE UNCHANGED <<dcore, fabric_events, stopped, sub, mgr_channel>>
    /\ UNCHANGED <<initializing, epm_initializing, soft_restart_ts, settings, barrier,
                   threads, evq, bvars, now, ctrl_listening, n_ctrl, db_writes, sr_log>>

\* a fabricNode event is delivered
handle_fabric_node ==
    \E node \in NodeIds \cup {0}, status \in {"none", "active", "inactive"},
       name \in NodeNames \cup {"none"}, role \in {"leaf", "spine", "none"} :
          HandleFabricNode(node, status, name, role)

\* line 799: ts is not None and self.soft_restart_ts > ts
StaleRequest(ts) == soft_restart_ts > ts

\* the rebuild steps of soft_restart, lines 812-836
SrSteps == <<"build_node_db", "vpcRsVpcConf", "pcAggrIf", "pcRsMbrIfs", "build_tunnel_db">>

FlushCollectionsAll == <<"eptNode", "eptVpc", "eptPc", "eptTunnel", "eptVnid">>

\* lines 839-842: the collections soft_restart flushes, in order
FlushCollections == <<"eptNode", "eptVpc", "eptPc", "eptTunnel">>

\* lines 1473-1476, 798-812: fabricAutoGEp/fabricExplicitGEp start a soft restart
\* unless the request is stale; the slow interests are re-added paused
handle_fabric_group_ep ==
    /\ SlowGuard
    /\ Deliver("handle_event")
    /\ \E ts \in 0..MaxTs :
         IF HandleEventAccepts /\ ~StaleRequest(ts)
         THEN /\ initializing' = TRUE
              /\ sub' = [sub EXCEPT !.slow_paused = TRUE]
              /\ fabric_events' = fabric_events \o <<FEvent("soft-reset", "soft_restart"),
                                     FEvent("re-initializing", "build_node_db")>>
              /\ sr_log' = Append(sr_log, ts)
              /\ ev' = [pc |-> "sr_build", start |-> Len(published), wrote |-> {}]
         ELSE UNCHANGED <<initializing, sub, fabric_events, sr_log, ev>>
    /\ UNCHANGED <<dvars, epm_initializing, stopped, soft_restart_ts, settings, barrier,
                   main, ctrl, evq, bvars, now, ctrl_listening, n_ctrl, db_writes, mgr_channel>>

WroteEveryStep(f) == UNION {TablesOf(SrSteps[j]) : j \in 1..Len(SrSteps)}

\* the tables written by the rebuild steps before step f
WroteBefore(f) == UNION {TablesOf(SrSteps[j]) : j \in 1..(f - 1)}

\* lines 815-836: the rebuild steps; the first failing step f escalates to
\* hard_restart (f = 0: none fails)
SoftRestartBuild ==
    /\ ev.pc = "sr_build"
    /\ Running
    /\ \E f \in 0..Len(SrSteps) :
         IF f = 0
         THEN /\ db_writes' = db_writes \cup WroteBefore(Len(SrSteps) + 1)
              /\ fabric_events' = Append(fabric_events,
                                         FEvent("re-initializing", "build_tunnel_db"))
              /\ ev' = [ev EXCEPT !.pc = "sr_flush", !.wrote = WroteBefore(Len(SrSteps) + 1)]
              /\ UNCHANGED <<stopped, sub, mgr_channel>>
         ELSE /\ db_writes' = db_writes \cup WroteBefore(f)
              /\ hard_restart((IF f = Len(SrSteps)
                               THEN <<FEvent("re-initializing", "build_tunnel_db")>>
                               ELSE <<>>) \o <<FEvent("failed", SrSteps[f])>>, SrSteps[f])
              /\ ev' = [ev EXCEPT !.pc = "idle", !.wrote = WroteBefore(f)]
    /\ UNCHANGED <<dvars, initializing, epm_initializing, soft_restart_ts, settings, barrier,
                   main, ctrl, evq, bvars, now, ctrl_listening, n_events, delivered, n_ctrl, sr_log>>

RECURSIVE FlushAll(_, _)
\* send_flush for collections[1], collections[2], ...
FlushAll(b, collections) ==
    IF collections = <<>> THEN b
    ELSE FlushAll(broadcast(b, "worker", "FLUSH_CACHE", Head(collections)), Tail(collections))

\* lines 839-842, 848-853: send_flush broadcasts FLUSH_CACHE to the workers
SoftRestartFlush ==
    /\ ev.pc = "sr_flush"
    /\ Running
    /\ SetBc(FlushAll(Bc, FlushCollections))
    /\ ev' = [ev EXCEPT !.pc = "sr_resume"]
    /\ UNCHANGED <<dvars, flags, barrier, main, ctrl, evq, world, logs>>

\* lines 844-846: running event, initializing cleared, slow interests resumed
SoftRestartResume ==
    /\ ev.pc = "sr_resume"
    /\ Running
    /\ fabric_events' = Append(fabric_events, FEvent("running", "soft_restart"))
    /\ initializing' = FALSE
    /\ sub' = [sub EXCEPT !.slow_paused = FALSE]
    /\ ev' = [ev EXCEPT !.pc = "sr_done"]
    /\ UNCHANGED <<dvars, epm_initializing, stopped, soft_restart_ts, settings, barrier,
                   main, ctrl, evq, bvars, now, ctrl_listening, n_events, delivered, n_ctrl,
                   db_writes, mgr_channel, sr_log>>

\* soft_restart returns to the subscription layer
SoftRestartReturn ==
    /\ ev.pc = "sr_done"
    /\ Running
    /\ ev' = [ev EXCEPT !.pc = "idle"]
    /\ UNCHANGED <<dvars, flags, barrier, main, ctrl, evq, bvars, world, logs>>

\* the subscription layer loses its session: is_alive() turns false
SubscriptionDies ==
    /\ Running
    /\ sub.alive
    /\ sub.subscribed
    /\ sub' = [sub EXCEPT !.alive = FALSE]
    /\ UNCHANGED <<dvars, flags, barrier, threads, evq, bvars, now, ctrl_listening,
                   n_events, delivered, n_ctrl, logs>>

----------------------------------------------------------------------------
(* The subscriber from construction on *)

\* __init__, lines 75-140
FsmInit ==
    /\ initializing = TRUE
    /\ epm_initializing = TRUE
    /\ stopped = FALSE
    /\ soft_restart_ts = 0
    /\ epm_eof_tracking = NoTracking
    /\ epm_eof_start = -1
    /\ settings \in [queue_init_events : BOOLEAN, queue_init_epm_events : BOOLEAN]
    /\ now = 0
    /\ sub = [alive |-> TRUE, subscribed |-> FALSE, slow_paused |-> FALSE,
              epm_interest |-> FALSE, epm_paused |-> FALSE]
    /\ ctrl_listening = FALSE
    /\ main = [pc |-> "validate", i |-> 1, pending |-> {}, db_open |-> TRUE,
               tickers |-> Tickers, trace |-> <<>>, td |-> 1]
    /\ ev = [pc |-> "idle", start |-> 0, wrote |-> {}]
    /\ ctrl = [pc |-> "idle", addr |-> "none"]
    /\ std_mo_event_queue = <<>>
    /\ epm_event_queue = <<>>
    /\ published = <<>>
    /\ worker_broadcast_seq = 0
    /\ watcher_broadcast_seq = 0
    /\ fabric_events = <<>>
    /\ db_writes = {}
    /\ mgr_channel = <<>>
    /\ sr_log = <<>>
    /\ n_events = 0
    /\ delivered = {}
    /\ n_ctrl = 0

\* the settings loaded from the database and the controller agree on pairT
PairInit == vpc_pair_type = "explicit" /\ apic_pair_type = "explicit"

\* one controller, at the minimum version or one build below it
VersionInit ==
    /\ history = <<>>
    /\ epm_reply = EpmReplyDefault
    /\ auto_start = TRUE
    /\ apic_version \in {<<MinVersion>>, <<[MinVersion EXCEPT !.build = @ - 1]>>}

Init == DispatchInit /\ FsmInit /\ PairInit /\ nodes = NodeTable /\ VersionInit

\* every thread of the subscriber and its environment
Next ==
    \/ MainStep
    \/ Tick
    \/ SubscriptionDies
    \/ CtrlAckReceive
    \/ CtrlStep
    \/ CtrlDeleteEpt
    \/ CtrlSettingsReload
    \/ CtrlRefreshEpt
    \/ handle_std_mo_event
    \/ handle_epm_event
    \/ handle_background_event_queue
    \/ handle_fabric_prot_pol
    \/ handle_fabric_node
    \/ handle_fabric_group_ep
    \/ SoftRestartBuild
    \/ SoftRestartFlush
    \/ SoftRestartResume
    \/ SoftRestartReturn

Spec == Init /\ [][Next]_vars

\* bootstrap and the EPM EOF barrier: the main loop against the ack handler
BarrierNext ==
    \/ MainStep
    \/ Tick
    \/ SubscriptionDies
    \/ CtrlAckReceive
    \/ CtrlStep

SpecBarrier == Init /\ [][BarrierNext]_vars

\* bootstrap, EPM and slow-MO events, the batcher and soft restarts
RestartNext ==
    \/ MainStep
    \/ Tick
    \/ SubscriptionDies
    \/ handle_std_mo_event
    \/ handle_epm_event
    \/ handle_background_event_queue
    \/ handle_fabric_group_ep
    \/ SoftRestartBuild
    \/ SoftRestartFlush
    \/ SoftRestartResume
    \/ SoftRestartReturn

SpecRestart == Init /\ [][RestartNext]_vars

\* bootstrap and every subscription callback, with the restarts they start;
\* the deadline of the barrier is not reached
ControlNext ==
    \/ BootStep
    \/ SubscriptionDies
    \/ handle_std_mo_event
    \/ handle_epm_event
    \/ handle_fabric_prot_pol
    \/ handle_fabric_node
    \/ handle_fabric_group_ep
    \/ SoftRestartBuild
    \/ SoftRestartFlush
    \/ SoftRestartResume
    \/ SoftRestartReturn

SpecControl == Init /\ [][ControlNext]_vars

\* bootstrap, the callbacks that queue events, and the batcher step by step
BatcherNext ==
    \/ BootStep
    \/ SubscriptionDies
    \/ handle_std_mo_event
    \/ handle_epm_event
    \/ BgStep

SpecBatcher == Init /\ [][BatcherNext]_vars

\* the stored settings and the controller hold any pairT
ProtPolInit ==
    /\ DispatchInit
    /\ FsmInit
    /\ vpc_pair_type \in PairTypes
    /\ apic_pair_type \in PairTypes
    /\ nodes = NodeTable
    /\ VersionInit

\* bootstrap and fabricProtPol events
ProtPolNext ==
    \/ BootStep
    \/ SubscriptionDies
    \/ handle_fabric_prot_pol

SpecProtPol == ProtPolInit /\ [][ProtPolNext]_vars

\* bootstrap and fabricNode events
NodeNext ==
    \/ BootStep
    \/ SubscriptionDies
    \/ handle_fabric_node

SpecNode == Init /\ [][NodeNext]_vars

\* the versions a controller may report, parsed; NoVersion is one that does not parse
Versions ==
    [major : 1..3, minor : 1..3, build : 0..2, patch : {"a", "b"}] \cup {NoVersion}

\* the version of a second controller, when there is one
OtherVersions == {[major |-> 1, minor |-> 1, build |-> 0, patch |-> "a"],
                  [major |-> 3, minor |-> 3, build |-> 2, patch |-> "b"]}

\* fabric_version["controller"]: one controller or two, any version first
VersionWideInit ==
    /\ DispatchInit
    /\ FsmInit
    /\ settings = [queue_init_events |-> TRUE, queue_init_epm_events |-> TRUE]
    /\ PairInit
    /\ nodes = NodeTable
    /\ auto_start = TRUE
    /\ history = <<>>
    /\ epm_reply = EpmReplyDefault
    /\ apic_version \in {<<v>> : v \in Versions}
                          \cup {<<v, o>> : v \in Versions, o \in OtherVersions}

VersionNext ==
    \/ BootStep
    \/ SubscriptionDies

SpecVersion == VersionWideInit /\ [][VersionNext]_vars

\* the projection of line 1684-1689 of an eptHistory document, with events.0.status
HistoryDocs ==
    [node : {101, 102}, vnid : {1, 2}, addr : {0, 1}, type : {"mac", "ip"},
     status : {"created", "deleted"}]

\* eptHistory holds one document per (fabric, node, vnid, addr)
Histories ==
    {h \in UNION {[1..n -> HistoryDocs] : n \in 0..MaxHistory} :
        \A i, j \in 1..Len(h) :
            (h[i].node = h[j].node /\ h[i].vnid = h[j].vnid /\ h[i].addr = h[j].addr) => i = j}

\* the subscriber starts on a database left by an earlier run
HistoryInit ==
    /\ DispatchInit
    /\ FsmInit
    /\ settings = [queue_init_events |-> TRUE, queue_init_epm_events |-> TRUE]
    /\ PairInit
    /\ nodes = NodeTable
    /\ auto_start = TRUE
    /\ apic_version = <<MinVersion>>
    /\ history \in Histories
    /\ epm_reply = EpmReplyDefault

DeleteNext ==
    \/ BootStep
    \/ SubscriptionDies

SpecDelete == HistoryInit /\ [][DeleteNext]_vars

\* BackgroundThread keeps calling the batcher while the subscriber runs
SpecBatcherFair == SpecBatcher /\ WF_vars(BgStep)

\* the threads are scheduled and time passes
SpecBarrierFair ==
    /\ SpecBarrier
    /\ WF_vars(MainStep)
    /\ WF_vars(CtrlStep)
    /\ WF_vars(Tick)

----------------------------------------------------------------------------
(* Inputs of the dispatcher specifications *)

\* messages of concurrent callers: all of one partition, (w0, 0)
ConcTemplates == { Msg("EPM_EVENT", "worker", 1, 1, 0) }

\* messages of one send_msg call: every routing case of lines 356-370
BulkTemplates ==
    { Msg("EPM_EVENT", "worker", 1, 1, 0), Msg("EPM_EVENT", "worker", 1, 1, 3),
      Msg("EPM_EVENT", "worker", 1, 0, 0), Msg("STD_MO", "watcher", 0, 0, 0),
      Msg("STD_MO", "manager", 0, 0, 0) }

BatchesOf(T, n) == UNION { [1..j -> T] : j \in 1..n }

DispatchSteps ==
    \E c \in Threads :
        \/ SendMsgRoute(c)
        \/ SendMsgStamp(c)
        \/ SendMsgPush(c)
        \/ SendDirectRoute(c)
        \/ SendDirectStamp(c)
        \/ SendDirectPush(c)
        \/ Return(c)

\* main, batcher and control-channel threads calling the dispatcher concurrently
DispatchNext ==
    \/ \E c \in Threads, b \in BatchesOf(ConcTemplates, MaxMsgs - nmsgs) :
            SendMsgBegin(c, b, FALSE)
    \/ \E b \in BatchesOf(ConcTemplates, MaxMsgs - nmsgs) :
            SendMsgBegin("ctrl", b, TRUE)
    \/ /\ nmsgs < MaxMsgs
       /\ \E i \in 1..Len(active_workers["worker"]) :
             SendDirectBegin("main", active_workers["worker"][i], <<EofMsg>>)
    \/ DispatchSteps

\* the dispatcher alone: the settings play no part in it
DispatchOnlyInit ==
    /\ Init
    /\ settings = [queue_init_events |-> TRUE, queue_init_epm_events |-> TRUE]
    /\ apic_version = <<MinVersion>>

SpecDispatch == DispatchOnlyInit /\ [][DispatchNext /\ UNCHANGED fvars]_vars

\* send_msg calls one after the other, each on a batch of up to two messages
\* drawn from every routing case
RouteCall ==
    /\ nmsgs < MaxMsgs
    /\ \E b \in BatchesOf(BulkTemplates, 2), p \in BOOLEAN :
          /\ last_seq' = send_msg(Disp, Tag(b, nmsgs, p), p).ls
          /\ redis_q' = send_msg(Disp, Tag(b, nmsgs, p), p).q
          /\ stamp_log' = send_msg(Disp, Tag(b, nmsgs, p), p).log
          /\ total_tx_msg' = [k \in Keys |-> total_tx_msg[k]
                                    + Len(send_msg(Disp, Tag(b, nmsgs, p), p).log[k])
                                    - Len(stamp_log[k])]
          /\ nmsgs' = nmsgs + Len(b)
    /\ UNCHANGED <<queue_locks, call, lockvars, redis_ok, lost, svars, fvars>>

SpecRoute == DispatchOnlyInit /\ [][RouteCall]_vars

\* one send_msg call on a batch drawn from every routing case
BulkNext ==
    \/ /\ nmsgs = 0
       /\ \E b \in BatchesOf(BulkTemplates, MaxBatch), p \in BOOLEAN :
             SendMsgBegin("ctrl", b, p)
    \/ \E c \in Threads :
        \/ SendMsgRoute(c)
        \/ SendMsgStamp(c)
        \/ SendMsgPush(c)
        \/ Return(c)

SpecBulk == DispatchOnlyInit /\ [][BulkNext /\ UNCHANGED fvars]_vars

----------------------------------------------------------------------------
(* Claims about the dispatcher *)

Increasing(s) == \A j \in 1..(Len(s) - 1) : s[j].seq < s[j + 1].seq

Ceil(n, d) == (n + d - 1) \div d

Max(a, b) == IF a >= b THEN a ELSE b

\* C1: for every (worker, qnum) the seq values stamped by concurrent send_msg
\* and send_msg_direct calls are exactly 1, 2, 3, ... in stamping order:
\* strictly increasing, none stamped twice, none skipped.
C1_SeqGapFree ==
    \A k \in Keys :
        /\ Len(stamp_log[k]) = last_seq[k]
        /\ \A j \in 1..Len(stamp_log[k]) : stamp_log[k][j] = j

\* a send_msg call and a send_msg_direct call in flight at once have both
\* stamped messages of the same queue
C1_Witness ==
    \E k \in Keys, c \in Threads :
        /\ call[c].fn = "send_msg" /\ call[c].pc = "push"
        /\ Len(call[c].work[k]) > 0
        /\ call["main"].fn = "send_msg_direct" /\ call["main"].pc = "d_push"
        /\ call["main"].key = k
        /\ last_seq[k] >= 3

NoPrepend == \A k \in Keys : \A j \in 1..Len(Flatten(redis_q[k])) : ~Flatten(redis_q[k])[j].force

\* C2: when only appending pushes are used, every worker queue read from head
\* to tail (bulks expanded) carries increasing seq values under any
\* interleaving of send_msg and send_msg_direct.
C2_QueueInSeqOrder ==
    NoPrepend => \A k \in Keys : Increasing(Flatten(redis_q[k]))

\* C6: a message routed by send_msg sits on a queue of
\* active_workers[role][hash mod len(active_workers[role])], so messages that
\* share role, vnid and addr are on the same worker, across calls.
C6_HashRouting ==
    LET hashed(k) == SelectSeq(Flatten(redis_q[k]), LAMBDA m : m.wt # "FABRIC_EPM_EOF")
    IN /\ \A k \in Keys : \A j \in 1..Len(hashed(k)) :
            LET m == hashed(k)[j]
                ws == active_workers[m.role]
            IN k[1] = ws[(get_msg_hash(m) % Len(ws)) + 1]
       /\ \A k1 \in Keys, k2 \in Keys :
            \A j1 \in 1..Len(hashed(k1)), j2 \in 1..Len(hashed(k2)) :
                LET m1 == hashed(k1)[j1]
                    m2 == hashed(k2)[j2]
                IN (m1.role = m2.role /\ m1.vnid = m2.vnid /\ m1.addr = m2.addr)
                       => k1[1] = k2[1]

\* messages of two different calls that share role, vnid and addr are on one
\* queue, and the other worker holds hashed work too
C6_Witness ==
    \E k1 \in Keys, k2 \in Keys :
        /\ k1[1] # k2[1]
        /\ \E j1, j2 \in 1..Len(Flatten(redis_q[k1])) :
              /\ Flatten(redis_q[k1])[j1].role = "worker"
              /\ Flatten(redis_q[k1])[j2].role = "worker"
              /\ Flatten(redis_q[k1])[j1].vnid = Flatten(redis_q[k1])[j2].vnid
              /\ Flatten(redis_q[k1])[j1].addr = Flatten(redis_q[k1])[j2].addr
              /\ Flatten(redis_q[k1])[j2].data > Flatten(redis_q[k1])[j1].data + 1
        /\ \E j \in 1..Len(Flatten(redis_q[k2])) : Flatten(redis_q[k2])[j].role = "worker"

RoutedTo(msgs, k) == SelectSeq(msgs, LAMBDA m : Routable(m) /\ RouteKey(m) = k)

DataOf(s) == [j \in 1..Len(s) |-> s[j].data]

\* C7: a finished send_msg call has pushed, for each (worker, qnum) that N >= 1
\* of its messages map to, max(1, ceil(N / MAX_SEND_MSG_LENGTH)) envelopes that
\* hold the messages in intake order, at most MAX_SEND_MSG_LENGTH each; an
\* envelope of one message is the plain message and a bulk's seq is the seq of
\* its last inner message; the inner seq values of a first call are 1..N.
C7_BulkEmission ==
    \A c \in Threads : (call[c].fn = "send_msg" /\ call[c].pc = "done") =>
        \A k \in Keys :
            LET n == Len(RoutedTo(call[c].msgs, k))
                sent == call[c].sent[k]
            IN /\ n = 0 => sent = <<>>
               /\ n >= 1 => Len(sent) = Max(1, Ceil(n, MAX_SEND_MSG_LENGTH))
               /\ DataOf(Flatten(sent)) = DataOf(RoutedTo(call[c].msgs, k))
               /\ \A j \in 1..Len(Flatten(sent)) : Flatten(sent)[j].seq = j
               /\ \A j \in 1..Len(sent) :
                    /\ Len(Expand(sent[j])) <= MAX_SEND_MSG_LENGTH
                    /\ sent[j].wt = "BULK" =>
                          /\ Len(sent[j].msgs) > 1
                          /\ sent[j].seq = sent[j].msgs[Len(sent[j].msgs)].seq

\* a call whose 2 * MAX_SEND_MSG_LENGTH + 1 messages for one queue went out as
\* two bulks and one plain message
C7_Witness ==
    \E k \in Keys :
        /\ call["ctrl"].pc = "done"
        /\ Len(RoutedTo(call["ctrl"].msgs, k)) = 2 * MAX_SEND_MSG_LENGTH + 1
        /\ Len(call["ctrl"].sent[k]) = 3
        /\ call["ctrl"].sent[k][1].wt = "BULK"
        /\ call["ctrl"].sent[k][3].wt # "BULK"

----------------------------------------------------------------------------
(* Claims about the lifecycle *)

IsResume(b) == b.wt = "FABRIC_WATCH_RESUME"

IsBarrierRunning(e) == e.status = "running" /\ e.src \in {"ack", "timeout"}

IsWarning(e) == e.status = "warning"

IsAckRunning(e) == e.status = "running" /\ e.src = "ack"

\* FABRIC_WATCH_RESUME broadcasts published so far
NumResume == Len(SelectSeq(published, IsResume))

\* 'running' fabric events recorded for the barrier so far
NumBarrierRunning == Len(SelectSeq(fabric_events, IsBarrierRunning))

NumWarning == Len(SelectSeq(fabric_events, IsWarning))

\* C3: the EPM EOF barrier ends with exactly one FABRIC_WATCH_RESUME broadcast
\* and exactly one 'running' fabric event, whether the last ack or the timeout
\* ends it and however the main loop and the ack handler interleave.
C3_SingleResume ==
    /\ NumResume <= 1
    /\ NumBarrierRunning <= 1
    /\ (~epm_eof_tracking.active /\ epm_eof_start >= 0 /\ main.pc = "loop"
           /\ ctrl.pc \in {"idle", "ack_check"})
          => NumResume = 1 /\ NumBarrierRunning = 1

\* work made from a slow-MO or EPM event, by queue and position
EventWork(q) ==
    UNION { { <<k, j>> : j \in { i \in 1..Len(Flatten(q[k])) :
                                   /\ Flatten(q[k])[i].wt \in {"STD_MO", "EPM_EVENT"}
                                   /\ Flatten(q[k])[i].data = 1 } } : k \in Keys }

\* the states of _run before it clears initializing
BootPcs == {"validate", "watch_pause", "subscribe", "build", "init_done"}

\* C4 (as stated): while initializing is true, in the bootstrap and in every
\* soft restart, no slow-MO or EPM event message is handed to send_msg.
C4_NoEventWhileInitializing ==
    [][initializing => Cardinality(EventWork(redis_q')) <= Cardinality(EventWork(redis_q))]_vars

\* C4 (amended): while initializing is true no slow-MO event is accepted into
\* std_mo_event_queue, while epm_initializing is true no EPM event is accepted
\* into epm_event_queue, and until _run clears initializing in the bootstrap
\* both queues are empty and no event message has reached a worker queue.
C4_BootstrapHoldsEvents ==
    /\ [](main.pc \in BootPcs =>
            /\ initializing
            /\ epm_initializing
            /\ std_mo_event_queue = <<>>
            /\ epm_event_queue = <<>>
            /\ EventWork(redis_q) = {})
    /\ [][/\ initializing => Len(std_mo_event_queue') <= Len(std_mo_event_queue)
          /\ epm_initializing => Len(epm_event_queue') <= Len(epm_event_queue)]_vars

\* slow events were delivered, and dropped, while the bootstrap was building
C4_Witness ==
    /\ main.pc = "build"
    /\ initializing
    /\ n_events = MaxEvents
    /\ std_mo_event_queue = <<>>

\* C5: soft restarts are deduplicated by timestamp: a request older than one
\* that already executed is dropped, so the timestamps of the executed soft
\* restarts never decrease.
C5_StaleDropped ==
    \A i \in 1..Len(sr_log), j \in 1..Len(sr_log) : i < j => sr_log[i] <= sr_log[j]

\* the barrier is over: tracking cleared, resume broadcast, 'running' recorded
BarrierEnded ==
    /\ ~epm_eof_tracking.active
    /\ NumResume >= 1
    /\ NumBarrierRunning >= 1

\* C8: once the EOF markers are sent the barrier ends, acks or not, unless the
\* subscription dies and _run exits; the timeout path has recorded a warning
\* event for the workers still pending before it resumes the watchers.
C8_BarrierEnds ==
    /\ (epm_eof_tracking.active /\ main.pc = "loop") ~> (BarrierEnded \/ main.pc = "exit")
    /\ [](main.pc \in {"timeout_resume", "timeout_clear", "timeout_running"} =>
            /\ NumWarning >= 1
            /\ main.pending \subseteq {w \in DOMAIN NumQueues : EofSentTo(w)})

\* the timeout ended the barrier while a worker had not acked
C8_Witness ==
    /\ BarrierEnded
    /\ main.pc = "loop"
    /\ main.pending # {}
    /\ NumWarning = 1
    /\ NumBarrierRunning = 1

TrackingPcs == {"eof_send", "loop", "timeout_warn", "timeout_resume", "timeout_clear",
                "timeout_running"}

\* C9: epm_eof_tracking is null through the bootstrap up to the end of
\* build_endpoint_db, is set only after epm_initializing was cleared, and once
\* cleared by the acks or by the timeout it is never set again.
C9_TrackingWindow ==
    /\ [](epm_eof_tracking.active =>
            /\ ~epm_initializing
            /\ epm_eof_start >= 0
            /\ main.pc \in TrackingPcs \cup {"exit"})
    /\ [][(~epm_eof_tracking.active /\ epm_eof_tracking'.active) =>
            (main.pc = "eof_start" /\ epm_eof_start < 0)]_vars

\* tracking was cleared by the acks and stays cleared past the deadline
C9_Witness ==
    /\ ~epm_eof_tracking.active
    /\ epm_eof_start >= 0
    /\ Len(SelectSeq(fabric_events, IsAckRunning)) = 1
    /\ main.pc = "loop"
    /\ TimedOut

\* the FLUSH_CACHE broadcasts published since the soft restart began
FlushesOfRestart ==
    SelectSeq(SubSeq(published, ev.start + 1, Len(published)),
              LAMBDA b : b.wt = "FLUSH_CACHE")

\* C10: when soft_restart has succeeded it has broadcast exactly four
\* FLUSH_CACHE messages, for eptNode, eptVpc, eptPc and eptTunnel, all on the
\* worker broadcast channel; it wrote no Vnid, Epg, Subnet or endpoint table
\* and none of its steps sent work to a worker queue; initializing is false and
\* the slow interests are not paused.
C10_SoftRestartFrame ==
    /\ [](ev.pc = "sr_done" =>
            /\ Len(FlushesOfRestart) = 4
            /\ {FlushesOfRestart[j].cache : j \in 1..Len(FlushesOfRestart)}
                  = {"eptNode", "eptVpc", "eptPc", "eptTunnel"}
            /\ \A j \in 1..Len(FlushesOfRestart) :
                  FlushesOfRestart[j].channel = WORKER_BROADCAST_CHANNEL
            /\ ev.wrote \cap {"eptVnid", "eptEpg", "eptSubnet", "eptHistory", "eptEndpoint"} = {}
            /\ ~initializing
            /\ ~sub.slow_paused)
    /\ [][ev' # ev => (redis_q' = redis_q /\ last_seq' = last_seq)]_vars

\* a soft restart succeeded while the watchers were being resumed
C10_Witness ==
    /\ ev.pc = "sr_done"
    /\ Len(published) - ev.start > 4
    /\ sub.alive

----------------------------------------------------------------------------
(* Claims about restarts and the event router *)

IsFlush(b) == b.wt = "FLUSH_CACHE"

\* the tables only the rebuild steps after step f write
OnlyAfter(f) ==
    UNION {TablesOf(SrSteps[j]) : j \in (f + 1)..Len(SrSteps)}
        \ UNION {TablesOf(SrSteps[j]) : j \in 1..f}

\* the last message on MANAGER_CTRL_CHANNEL names rebuild step f as the reason
RestartedFor(ch, f) == ch # <<>> /\ ch[Len(ch)].reason = "restarting: " \o SrSteps[f]

\* C11: when a rebuild step of soft_restart fails, that step of the soft restart
\* calls hard_restart once (one more FABRIC_RESTART, stopped set), broadcasts
\* nothing, has run no later rebuild step, leaves initializing true and the
\* slow interests paused or gone; no FLUSH_CACHE follows afterwards.
C11_SoftRestartEscalates ==
    /\ [][(ev.pc = "sr_build" /\ ev'.pc = "idle") =>
            /\ Len(mgr_channel') = Len(mgr_channel) + 1
            /\ mgr_channel'[Len(mgr_channel')].msg_type = "FABRIC_RESTART"
            /\ stopped'
            /\ published' = published
            /\ initializing /\ initializing'
            /\ ~(sub'.subscribed /\ ~sub'.slow_paused)
            /\ \E f \in 1..Len(SrSteps) :
                  /\ RestartedFor(mgr_channel', f)
                  /\ ev'.wrote \cap OnlyAfter(f) = {}]_vars
    /\ []((ev.pc = "idle" /\ \E f \in 1..Len(SrSteps) : RestartedFor(mgr_channel, f)) =>
            /\ FlushesOfRestart = <<>>
            /\ initializing
            /\ stopped
            /\ Len(mgr_channel) = 1
            /\ ~(sub.subscribed /\ ~sub.slow_paused))

\* the pcAggrIf rebuild failed after the node db and vpcRsVpcConf were rebuilt,
\* and the subscriptions outlived the failed unsubscribe
C11_Witness ==
    /\ ev.pc = "idle"
    /\ RestartedFor(mgr_channel, 3)
    /\ ev.wrote = {"eptNode", "mo"}
    /\ sub.subscribed
    /\ sub.slow_paused

IsRestarting(e) == e.status = "restarting"

\* hard_restart calls so far: each records one 'restarting' fabric event
NumRestarting(evs) == Len(SelectSeq(evs, IsRestarting))

\* C12: a hard_restart call sets stopped, ends the subscriptions unless
\* unsubscribe raises, and in both cases publishes one FABRIC_RESTART with the
\* fabric and the reason on MANAGER_CTRL_CHANNEL; nothing else publishes there
\* and stopped is never reset.
C12_HardRestart ==
    /\ [][stopped => stopped']_vars
    /\ [][NumRestarting(fabric_events') > NumRestarting(fabric_events) =>
            /\ NumRestarting(fabric_events') = NumRestarting(fabric_events) + 1
            /\ stopped'
            /\ sub' = Unsubscribed \/ sub' = sub
            /\ mgr_channel' = Append(mgr_channel,
                  [msg_type |-> "FABRIC_RESTART", fabric |-> fabric,
                   reason |-> "restarting: " \o fabric_events'[Len(fabric_events')].src])]_vars
    /\ [](Len(mgr_channel) = NumRestarting(fabric_events))
    /\ [](stopped <=> mgr_channel # <<>>)

\* fabricProtPol changed, unsubscribe raised, and FABRIC_RESTART was published
C12_Witness ==
    /\ stopped
    /\ sub.subscribed
    /\ sub.alive
    /\ mgr_channel = <<[msg_type |-> "FABRIC_RESTART", fabric |-> fabric,
                        reason |-> "restarting: " \o ProtPolReason("explicit", "consecutive")]>>

\* C13: an event delivered to handle_event, handle_std_mo_event or
\* handle_epm_event while stopped is true changes nothing but the count of
\* delivered events: no handler runs, no restart starts, no queue grows.
C13_StoppedDropsAll ==
    [][(stopped /\ n_events' # n_events) =>
          UNCHANGED <<dvars, flags, barrier, threads, evq, bvars, now, sub, ctrl_listening,
                      n_ctrl, logs>>]_vars

\* a control-MO event reached handle_event after a hard restart, with
\* initializing false, so stopped alone dropped it
C13_Witness ==
    \E d \in delivered : d.h = "handle_event" /\ d.stopped /\ ~d.initializing

\* C14: an event delivered while initializing is true changes nothing of the
\* slow path (no handler, no restart, std_mo_event_queue as it was), an event
\* delivered while epm_initializing is true leaves epm_event_queue as it was,
\* and each callback looks at its own flag only: a slow-MO event is queued
\* whenever stopped and initializing are false, an EPM event whenever stopped
\* and epm_initializing are false.
C14_FlagsGateEvents ==
    /\ [][(initializing /\ n_events' # n_events) =>
            UNCHANGED <<dvars, flags, barrier, threads, std_mo_event_queue, bvars, now, sub,
                        ctrl_listening, n_ctrl, logs>>]_vars
    /\ [][(epm_initializing /\ n_events' # n_events) =>
            epm_event_queue' = epm_event_queue]_vars
    /\ [][\A d \in delivered' \ delivered :
            /\ (d.h = "handle_epm_event" /\ ~d.stopped /\ ~d.epm_initializing)
                  => Len(epm_event_queue') = Len(epm_event_queue) + 1
            /\ (d.h = "handle_std_mo_event" /\ ~d.stopped /\ ~d.initializing)
                  => Len(std_mo_event_queue') = Len(std_mo_event_queue) + 1]_vars

\* a slow event was dropped while initializing was true, an EPM event while
\* only epm_initializing was true
C14_Witness ==
    /\ \E d \in delivered : d.h # "handle_epm_event" /\ d.initializing /\ ~d.stopped
    /\ \E d \in delivered :
          d.h = "handle_epm_event" /\ d.epm_initializing /\ ~d.initializing /\ ~d.stopped
    /\ n_events = 2
    /\ std_mo_event_queue = <<>>
    /\ epm_event_queue = <<>>

----------------------------------------------------------------------------
(* Claims about the bootstrap *)

\* the build phases of the bootstrap, build_endpoint_db last
BuildPhases == Phases \o <<"build_endpoint_db">>

IsFailed(e) == e.status = "failed"

IsEof(m) == m.wt = "FABRIC_EPM_EOF"

\* FABRIC_EPM_EOF markers on the queues
NumEof(k) == Len(SelectSeq(Flatten(redis_q[k]), IsEof))

\* phase BuildPhases[n] has failed: it is the last fabric event
FailedAt(n) ==
    /\ fabric_events # <<>>
    /\ IsFailed(fabric_events[Len(fabric_events)])
    /\ fabric_events[Len(fabric_events)].src = BuildPhases[n]

\* C15: when a bootstrap phase fails a 'failed' fabric event is the last event
\* of the run, _run has exited and stays so, only the earlier phases wrote
\* their tables, epm_initializing is still true (and initializing too unless
\* the slow phases were complete), no EPM_EOF marker was sent (build_endpoint_db
\* may have sent endpoint work of the classes it had streamed), no barrier
\* started and no control listener was installed.
C15_PhaseFailureAborts ==
    /\ [](\A n \in 1..Len(BuildPhases) : FailedAt(n) =>
            /\ main.pc = "exit"
            /\ db_writes = UNION {TablesOf(BuildPhases[j]) : j \in 1..(n - 1)}
            /\ epm_initializing
            /\ initializing <=> n <= Len(Phases)
            /\ \A k \in Keys : NumEof(k) = 0
            /\ n < Len(BuildPhases) => \A k \in Keys : redis_q[k] = <<>>
            /\ epm_eof_start < 0
            /\ ~epm_eof_tracking.active
            /\ ~ctrl_listening)
    /\ [][main.pc = "exit" => main'.pc = "exit"]_vars
    /\ [][(main.pc \in {"build", "build_endpoint_db"} /\ main'.pc = "exit" /\ sub.alive) =>
            \E n \in 1..Len(BuildPhases) : FailedAt(n)']_vars

\* build_epg_db failed after five phases had written their tables
C15_Witness ==
    /\ FailedAt(6)
    /\ main.pc = "exit"
    /\ db_writes = {"mo", "eptNode", "eptVpc", "eptPc", "eptTunnel", "eptVnid"}

IsPause(b) == b.wt = "FABRIC_WATCH_PAUSE"

\* FABRIC_WATCH_PAUSE broadcasts published so far
NumPause == Len(SelectSeq(published, IsPause))

\* a 'failed' fabric event of the session, role, version or overlay validation
ValidationFailed ==
    \E j \in 1..Len(fabric_events) :
        /\ IsFailed(fabric_events[j])
        /\ \E n \in 1..Len(PreSteps) : fabric_events[j].src = PreSteps[n]

\* C16: a run that gets past the validation has broadcast FABRIC_WATCH_PAUSE
\* exactly once, on the watcher channel and before anything else is published,
\* before the subscriptions start and before the first phase writes; a run
\* that fails the validation has broadcast none.
C16_SinglePause ==
    /\ [](NumPause <= 1)
    /\ [](main.pc \in {"validate", "watch_pause"} => NumPause = 0)
    /\ [](ValidationFailed => (NumPause = 0 /\ main.pc = "exit"))
    /\ [](main.pc \notin {"validate", "watch_pause", "exit"} => NumPause = 1)
    /\ []((sub.subscribed \/ db_writes # {} \/ published # <<>>) =>
            /\ NumPause = 1
            /\ IsPause(published[1])
            /\ published[1].channel = WATCHER_BROADCAST_CHANNEL)
    /\ [][((~sub.subscribed /\ sub'.subscribed) \/ (db_writes = {} /\ db_writes' # {})) =>
            NumPause = 1]_vars

\* the first phase is about to run: the pause is out, the subscriptions started
C16_Witness ==
    /\ main.pc = "build"
    /\ main.i = 1
    /\ sub.subscribed
    /\ db_writes = {}
    /\ NumPause = 1

\* the tables the slow snapshot phases write
SlowTables == UNION {TablesOf(Phases[j]) : j \in 1..Len(Phases)}

\* a FABRIC_EPM_EOF marker is on some queue
EofSent == \E k \in Keys : NumEof(k) > 0

\* C17: initializing is cleared only after every slow phase wrote its tables,
\* and the slow interests are resumed with it; the EPM interests are added
\* only after that, while epm_initializing is still true; epm_initializing is
\* cleared only with the EPM interests added, and resumes them; the control
\* listener is installed only after that and before epm_eof_start is recorded;
\* epm_eof_start and the tracking are set with the listener installed and no
\* marker sent; so a marker is on a queue, or an ack of a worker is received,
\* only with the listener installed and the tracking created.
C17_TransitionOrder ==
    /\ [][(initializing /\ ~initializing') =>
            /\ SlowTables \subseteq db_writes
            /\ ~sub'.slow_paused
            /\ ~sub.epm_interest
            /\ epm_initializing']_vars
    /\ [][(~sub.epm_interest /\ sub'.epm_interest) =>
            /\ ~initializing
            /\ epm_initializing'
            /\ ~ctrl_listening']_vars
    /\ [][(epm_initializing /\ ~epm_initializing') =>
            /\ sub.epm_interest
            /\ ~sub'.epm_paused
            /\ ~initializing
            /\ ~ctrl_listening']_vars
    /\ [][(~ctrl_listening /\ ctrl_listening') =>
            /\ ~epm_initializing
            /\ epm_eof_start' < 0
            /\ ~epm_eof_tracking'.active]_vars
    /\ [][(epm_eof_start < 0 /\ epm_eof_start' >= 0) =>
            /\ ctrl_listening
            /\ epm_eof_tracking'.active
            /\ ~EofSent']_vars
    /\ []((EofSent \/ epm_eof_tracking.active \/ main.pc = "loop") =>
            (ctrl_listening /\ epm_eof_start >= 0 /\ ~epm_initializing /\ ~initializing))
    /\ []((ctrl.pc # "idle" /\ ctrl.addr \in DOMAIN NumQueues) =>
            (ctrl_listening /\ epm_eof_start >= 0))

\* the whole transition ran: markers out, listener on, an ack being handled
C17_Witness ==
    /\ main.pc = "loop"
    /\ \A i \in 1..Len(active_workers["worker"]) : NumEof(<<active_workers["worker"][i], 0>>) = 1
    /\ ctrl_listening
    /\ epm_eof_tracking.active
    /\ ctrl.pc = "ack_mark"
    /\ ctrl.addr = "w1"

\* the workers of role 'worker'
EofWorkers == {active_workers["worker"][i] : i \in 1..Len(active_workers["worker"])}

\* _run is past the marker loop of lines 713-721
PastMarkers == main.pc \in TrackingPcs \ {"eof_send"}

\* C18: once the slow and EPM phases have succeeded the marker loop runs to
\* its end; past it every worker of role 'worker' holds exactly one
\* FABRIC_EPM_EOF, on its queue 0, and no other queue holds one; each worker
\* was entered into epm_eof_tracking un-acked when its marker was sent, and
\* the barrier does not end before every worker was entered.
C18_EofToEveryWorker ==
    /\ [](PastMarkers =>
            \A k \in Keys : NumEof(k) = IF k[1] \in EofWorkers /\ k[2] = 0 THEN 1 ELSE 0)
    /\ [][epm_eof_tracking'.tracked # epm_eof_tracking.tracked =>
            \/ epm_eof_tracking'.tracked = {}
            \/ \E w \in EofWorkers \ epm_eof_tracking.tracked :
                  /\ epm_eof_tracking'.tracked = epm_eof_tracking.tracked \cup {w}
                  /\ w \notin epm_eof_tracking'.acked
                  /\ NumEof(<<w, 0>>)' = 1]_vars
    /\ [][main.pc = "eof_send" => main'.pc \in {"eof_send", "loop"}]_vars
    /\ [](NumResume >= 1 => \A w \in EofWorkers : NumEof(<<w, 0>>) = 1)

\* C19: the ack handler changes the tracking only by marking the acking
\* worker, and marks nothing for an unknown or already acked worker; when it
\* broadcasts FABRIC_WATCH_RESUME before the deadline the tracking is active
\* and every tracked worker has acked.
C19_AckMarksOnly ==
    /\ [][(ctrl.pc = "ack_mark" /\ ctrl'.pc # "ack_mark") =>
            /\ epm_eof_tracking'.tracked = epm_eof_tracking.tracked
            /\ epm_eof_tracking'.acked =
                  epm_eof_tracking.acked \cup ({ctrl.addr} \cap epm_eof_tracking.tracked)]_vars
    /\ [][(ctrl.pc = "ack_resume" /\ ctrl'.pc # "ack_resume" /\ ~TimedOut) =>
            /\ NumResume' = NumResume + 1
            /\ epm_eof_tracking.active
            /\ epm_eof_tracking.tracked \subseteq epm_eof_tracking.acked]_vars


----------------------------------------------------------------------------
(* The locks of the subscriber and the order in which each call takes them *)

\* worker.queue_locks[qnum]
QueueLock(k) == <<"queue_lock", k[1], k[2]>>

\* self.queue_stats_lock
StatsLock == <<"queue_stats_lock", "", 0>>

\* self.manager_ctrl_channel_lock
ManagerLock == <<"manager_ctrl_channel_lock", "", 0>>

Locks == {QueueLock(k) : k \in Keys} \cup {StatsLock, ManagerLock}

\* "with l:" around a body that takes no lock
Section(l) == << <<"acq", l>>, <<"rel", l>> >>

\* increment_stats nested inside the queue lock
StampSectionNested(k) ==
    << <<"acq", QueueLock(k)>> >> \o Section(StatsLock) \o << <<"rel", QueueLock(k)>> >>

\* lines 380-383 and 423-426: the sequence number under the queue lock, then
\* increment_stats once that lock is released
StampSection(k) == Section(QueueLock(k)) \o Section(StatsLock)

RECURSIVE StampOps(_, _)
\* the first loop of send_msg
StampOps(msgs, i) ==
    IF i > Len(msgs) THEN <<>>
    ELSE IF ~Routable(msgs[i]) THEN StampOps(msgs, i + 1)
         ELSE StampSection(RouteKey(msgs[i])) \o StampOps(msgs, i + 1)

RECURSIVE Repeat(_, _)
Repeat(ops, n) == IF n = 0 THEN <<>> ELSE ops \o Repeat(ops, n - 1)

RECURSIVE PushOps(_, _)
\* the second loop of send_msg: one "with" per bulk, keys in the order ord
PushOps(work, ord) ==
    IF ord = <<>> THEN <<>>
    ELSE Repeat(Section(QueueLock(Head(ord))), Len(work[Head(ord)])) \o PushOps(work, Tail(ord))

WorkOf(msgs) ==
    StampAll(msgs, 1, [ls |-> [k \in Keys |-> 0], work |-> EmptyWork,
                       log |-> [k \in Keys |-> <<>>]]).work

\* the orders in which "for worker_id in work: for qnum in ..." can visit the keys
KeyOrders(work) ==
    LET ks == {k \in Keys : work[k] # <<>>}
        n == Cardinality(ks)
    IN {ord \in [1..n -> ks] : \A a, b \in 1..n : a # b => ord[a] # ord[b]}

SendMsgLockOps(msgs) ==
    {StampOps(msgs, 1) \o PushOps(WorkOf(msgs), ord) : ord \in KeyOrders(WorkOf(msgs))}

\* send_msg_direct of one message
SendDirectLockOps(w, m) ==
    IF m.qnum >= NumQueues[w] THEN <<>>
    ELSE StampSection(<<w, m.qnum>>) \o Section(QueueLock(<<w, m.qnum>>))

\* broadcast: increment_stats once per channel published to
BroadcastLockOps(role) ==
    Repeat(Section(StatsLock), IF role \in {"watcher", "worker"} THEN 1 ELSE 2)

\* send_hello
HelloLockOps == Section(StatsLock)

\* update_stats: the stats lock taken anew for every queue
UpdateStatsLockOps == Repeat(Section(StatsLock), Cardinality(QueueStatsKeys))

\* hard_restart: the publish on the manager control channel
HardRestartLockOps == Section(ManagerLock)

\* the events the batcher collects: one for queue 1 of w0, one for queue 0 of w1
LockMsgs == {Msg("EPM_EVENT", "worker", 1, 1, 1), Msg("EPM_EVENT", "worker", 1, 0, 0)}

\* the calls each thread makes, as the lock operations they perform
LockCalls(t) ==
    CASE t = "main" ->
            {SendDirectLockOps(w, EofMsg) : w \in {"w0", "w1"}}
                \cup {BroadcastLockOps("watcher"), BroadcastLockOps("worker")}
                \cup SendMsgLockOps(CreateMsgs)
      [] t = "hello" -> {HelloLockOps}
      [] t = "stats" -> {UpdateStatsLockOps}
      [] t = "batcher" ->
            UNION {SendMsgLockOps(b) : b \in BatchesOf(LockMsgs, MAX_SEND_MSG_LENGTH)}
      [] t = "ctrl" ->
            {BroadcastLockOps("all"), BroadcastLockOps("watcher")}
                \cup SendMsgLockOps(<<Msg("DELETE_EPT", "worker", 1, 1, 0)>>)
      [] OTHER ->
            {HardRestartLockOps, BroadcastLockOps("worker")}
                \cup SendMsgLockOps(<<Msg("WATCH_NODE", "watcher", 0, 1, 0)>>)

\* the thread holding l, or "free"
Owner(l) ==
    IF l[1] = "queue_lock" THEN queue_locks[<<l[2], l[3]>>]
    ELSE IF l = StatsLock THEN queue_stats_lock
    ELSE manager_ctrl_channel_lock

SetOwner(l, t) ==
    /\ queue_locks' = IF l[1] = "queue_lock"
                      THEN [queue_locks EXCEPT ![<<l[2], l[3]>>] = t] ELSE queue_locks
    /\ queue_stats_lock' = IF l = StatsLock THEN t ELSE queue_stats_lock
    /\ manager_ctrl_channel_lock' = IF l = ManagerLock THEN t ELSE manager_ctrl_channel_lock

Held(t) == {l \in Locks : Owner(l) = t}

\* the lock t is blocked on, if any
WaitsFor(t) ==
    IF lock_ops[t].ops # <<>> /\ Head(lock_ops[t].ops)[1] = "acq"
           /\ Owner(Head(lock_ops[t].ops)[2]) # "free"
    THEN {Head(lock_ops[t].ops)[2]} ELSE {}

\* the calls entered so far, over all threads
LockCallsMade ==
    lock_ops["main"].n + lock_ops["hello"].n + lock_ops["stats"].n
        + lock_ops["batcher"].n + lock_ops["ctrl"].n + lock_ops["event"].n

\* thread t enters one of its calls
LockCall(t) ==
    /\ lock_ops[t].ops = <<>>
    /\ LockCallsMade < MaxLockCalls
    /\ \E ops \in LockCalls(t) :
          lock_ops' = [lock_ops EXCEPT ![t] = [ops |-> ops, n |-> @.n + 1]]
    /\ UNCHANGED <<queue_locks, queue_stats_lock, manager_ctrl_channel_lock>>

\* Lock.acquire(): blocks until the lock is free
LockAcquire(t) ==
    /\ lock_ops[t].ops # <<>>
    /\ Head(lock_ops[t].ops)[1] = "acq"
    /\ Owner(Head(lock_ops[t].ops)[2]) = "free"
    /\ SetOwner(Head(lock_ops[t].ops)[2], t)
    /\ lock_ops' = [lock_ops EXCEPT ![t].ops = Tail(@)]

\* Lock.release() at the end of the "with" block
LockRelease(t) ==
    /\ lock_ops[t].ops # <<>>
    /\ Head(lock_ops[t].ops)[1] = "rel"
    /\ SetOwner(Head(lock_ops[t].ops)[2], "free")
    /\ lock_ops' = [lock_ops EXCEPT ![t].ops = Tail(@)]

LockNext ==
    /\ \E t \in LockThreads : LockCall(t) \/ LockAcquire(t) \/ LockRelease(t)
    /\ UNCHANGED <<last_seq, redis_q, call, stamp_log, nmsgs, xvars, fvars, queue_stats,
                   stats_call, bcast_call>>

SpecLocks == DispatchOnlyInit /\ [][LockNext]_vars


----------------------------------------------------------------------------
(* C20 *)

\* C20: no thread ever holds two of the locks (the per-(worker, queue) locks,
\* queue_stats_lock, manager_ctrl_channel_lock) at once, and a thread blocked on
\* a lock is blocked by a thread that is itself not blocked, so that no
\* interleaving of the main, hello, stats, batcher, control-channel and
\* event-handler threads deadlocks on these locks.
C20_OneLockAtATime ==
    /\ \A t \in LockThreads : Cardinality(Held(t)) <= 1
    /\ \A t \in LockThreads : \A l \in WaitsFor(t) :
          /\ Owner(l) \in LockThreads \ {t}
          /\ WaitsFor(Owner(l)) = {}

\* two threads hold different locks while a third is blocked on one of them
C20_Witness ==
    \E t1, t2, t3 \in LockThreads :
        /\ t1 # t2 /\ t3 \notin {t1, t2}
        /\ Held(t1) # {} /\ Held(t2) # {} /\ Held(t1) # Held(t2)
        /\ WaitsFor(t3) # {} /\ WaitsFor(t3) \subseteq Held(t1)


----------------------------------------------------------------------------
(* The dispatcher over a redis connection that can fail *)

\* the connection to redis breaks: rpush / lpush raise from now on
RedisFails ==
    /\ redis_ok
    /\ redis_ok' = FALSE
    /\ UNCHANGED <<last_seq, redis_q, queue_locks, call, stamp_log, nmsgs, lockvars,
                   lost, total_tx_msg, svars>>

\* the connection is back
RedisRecovers ==
    /\ ~redis_ok
    /\ redis_ok' = TRUE
    /\ UNCHANGED <<last_seq, redis_q, queue_locks, call, stamp_log, nmsgs, lockvars,
                   lost, total_tx_msg, svars>>

\* messages for (w0, 0) and for (w1, 0)
PushTemplates == { Msg("EPM_EVENT", "worker", 1, 1, 0), Msg("EPM_EVENT", "worker", 1, 0, 0) }

\* the batcher and the control-channel thread call send_msg, the main thread
\* send_msg_direct, while the connection comes and goes
PushErrorNext ==
    \/ \E c \in {"batcher", "ctrl"}, b \in BatchesOf(PushTemplates, MaxMsgs - nmsgs),
          p \in BOOLEAN : SendMsgBegin(c, b, p)
    \/ /\ nmsgs < MaxMsgs
       /\ \E i \in 1..Len(active_workers["worker"]) :
             SendDirectBegin("main", active_workers["worker"][i], <<EofMsg>>)
    \/ DispatchSteps
    \/ RedisFails
    \/ RedisRecovers

SpecPushError == DispatchOnlyInit /\ [][PushErrorNext /\ UNCHANGED fvars]_vars

----------------------------------------------------------------------------
(* C21 *)

\* the payload tags of the messages of the envelopes in q
TagsIn(q) == {Flatten(q)[j].data : j \in 1..Len(Flatten(q))}

\* the payload tags of the messages of a call that send_msg / send_msg_direct routes
TagsOf(cs) ==
    {cs.msgs[j].data : j \in {i \in 1..Len(cs.msgs) :
        IF cs.fn = "send_msg" THEN Routable(cs.msgs[i])
        ELSE cs.msgs[i].qnum < NumQueues[cs.worker]}}

AllLost == UNION {TagsIn(lost[k]) : k \in Keys}

AllQueued == UNION {TagsIn(redis_q[k]) : k \in Keys}

\* thread c is at a push that raises
FailingPush(c) == call[c].pc \in {"push", "d_push"} /\ ~redis_ok

\* C21: a push that raises is swallowed. The step leaves the caller without a queue lock,
\* the queue, last_seq, the stamped seq values and the tx counters as they were,
\* and the call goes on (to its next envelope or to its return); the envelope
\* is never pushed later (no message is both lost and queued); and a call that
\* reaches its return has tried every routed message: each is queued or lost.
C21_PushErrorSwallowed ==
    /\ [][\A c \in Threads :
            (FailingPush(c) /\ call'[c] # call[c]) =>
                /\ call'[c].pc \in {"push", "d_route", "done"}
                /\ \A k \in Keys : queue_locks'[k] # c
                /\ redis_q' = redis_q
                /\ last_seq' = last_seq
                /\ stamp_log' = stamp_log
                /\ total_tx_msg' = total_tx_msg
                /\ \E k \in Keys : Len(lost'[k]) = Len(lost[k]) + 1]_vars
    /\ [](AllLost \cap AllQueued = {})
    /\ [](\A c \in Threads : call[c].pc = "done" =>
              TagsOf(call[c]) \subseteq AllLost \cup AllQueued)
    /\ [](\A k \in Keys : total_tx_msg[k] = Len(stamp_log[k]) /\ last_seq[k] = Len(stamp_log[k]))

\* a send_msg call returns after its first envelope was lost and a later one
\* of the same call was pushed
C21_Witness ==
    \E c \in Threads :
        /\ call[c].pc = "done"
        /\ call[c].fn = "send_msg"
        /\ TagsOf(call[c]) \cap AllLost # {}
        /\ TagsOf(call[c]) \cap AllQueued # {}
        /\ \E k \in Keys : lost[k] # <<>> /\ call[c].sent[k] # <<>>


----------------------------------------------------------------------------
(* C22 *)

RECURSIVE HandedOf(_, _)
\* the messages of queue q handed to send_msg so far, in order
HandedOf(h, q) ==
    IF h = <<>> THEN <<>>
    ELSE (IF Head(h).q = q THEN Head(h).msgs ELSE <<>>) \o HandedOf(Tail(h), q)

\* every message put on queue BgQueues[i] so far: handed over, held in the
\* local list of the running tick, or still queued
Stream(i) ==
    HandedOf(handed, BgQueues[i]) \o (IF bg.qi = i THEN bg.msgs ELSE <<>>) \o BgQueue(i)

\* C22: for each of the two queues, the messages handed to send_msg, then those
\* in the local list of the running tick, then those still queued, form one
\* sequence that only ever grows at its end (by a put): no message is lost,
\* duplicated or reordered, whatever the interleaving of the callbacks with the
\* batcher; no empty list is handed to send_msg; and while the subscriber runs
\* every message put is handed over by the running tick or a later one.
C22_BatcherExactlyOnce ==
    /\ [][\A i \in 1..Len(BgQueues) :
             \/ Stream(i)' = Stream(i)
             \/ /\ Len(Stream(i)') = Len(Stream(i)) + 1
                /\ SubSeq(Stream(i)', 1, Len(Stream(i))) = Stream(i)
                /\ BgQueue(i)' # <<>>
                /\ bg' = bg]_vars
    /\ [](\A j \in 1..Len(handed) : handed[j].msgs # <<>>)
    /\ \A i \in 1..Len(BgQueues) : \A n \in 1..MaxEvents :
          (Len(Stream(i)) >= n) ~> (Len(HandedOf(handed, BgQueues[i])) >= n \/ ~Running)

\* a tick handed over two messages of one queue, and both queues were served
C22_Witness ==
    /\ \E j \in 1..Len(handed) : Len(handed[j].msgs) = 2
    /\ Len(handed) >= 1
    /\ bg.pc = "idle"
    /\ std_mo_event_queue = <<>> /\ epm_event_queue = <<>>


----------------------------------------------------------------------------
(* C23 *)

\* the text of a restart reason that names the old and the new pair type
ChangeText(old, new) ==
    IF old = "explicit" /\ new = "consecutive"
    THEN "restarting: fabricProtPol changed from explicit to consecutive"
    ELSE IF old = "consecutive" /\ new = "explicit"
    THEN "restarting: fabricProtPol changed from consecutive to explicit"
    ELSE "none"

\* C23: a fabricProtPol event handled while the subscriber is neither stopped
\* nor initializing starts a hard restart exactly when its pairT differs from
\* settings.vpc_pair_type: stopped is set and one FABRIC_RESTART is published
\* whose reason names the old and the new value; an event with the same pairT
\* changes nothing and publishes nothing.
C23_ProtPolRestart ==
    [][\A pairT \in PairTypes :
          (HandleFabricProtPol(pairT) /\ HandleEventAccepts) =>
             IF pairT # vpc_pair_type
             THEN /\ stopped'
                  /\ mgr_channel' = Append(mgr_channel,
                        [msg_type |-> "FABRIC_RESTART", fabric |-> fabric,
                         reason |-> ChangeText(vpc_pair_type, pairT)])
                  /\ vpc_pair_type' = vpc_pair_type
             ELSE UNCHANGED <<dvars, flags, barrier, threads, evq, bvars, now, sub,
                              ctrl_listening, n_ctrl, logs>>]_vars

\* the settings held "consecutive", an event with pairT "explicit" restarted
\* the subscriber
C23_Witness ==
    /\ stopped
    /\ vpc_pair_type = "consecutive"
    /\ Len(mgr_channel) = 1
    /\ mgr_channel[1].reason = ChangeText("consecutive", "explicit")
    /\ \E r \in delivered : r.h = "handle_event" /\ ~r.stopped /\ ~r.initializing


----------------------------------------------------------------------------
(* C24 *)

\* the WATCH_NODE messages in queue q
NumWatchNode(q) == Cardinality({j \in 1..Len(q) : q[j].wt = "WATCH_NODE"})

\* C24: a fabricNode event handled while the subscriber is neither stopped nor
\* initializing is classified by the eptNode entry of its node. With fabricSt:
\* a known leaf turning active, or an unknown node turning active that the
\* follow-up query reports as a leaf, starts a hard restart (one FABRIC_RESTART,
\* stopped set) and nothing else does; a known leaf with another status puts
\* exactly one WATCH_NODE message on the watcher's queue and starts no restart;
\* every other event sends nothing. A name that differs from the stored one
\* changes the name of that known node and nothing else in the table.
C24_FabricNodeClasses ==
    [][\A node \in NodeIds, status \in {"none", "active", "inactive"},
          name \in NodeNames \cup {"none"}, role \in {"leaf", "spine", "none"} :
          (HandleFabricNode(node, status, name, role) /\ HandleEventAccepts) =>
             LET known == nodes[node].exists
                 leaf == nodes[node].role = "leaf"
                 restart == \/ known /\ leaf /\ status = "active"
                            \/ ~known /\ status = "active" /\ role = "leaf"
                 watch == known /\ leaf /\ status = "inactive"
             IN /\ IF restart
                   THEN /\ stopped'
                        /\ Len(mgr_channel') = Len(mgr_channel) + 1
                        /\ mgr_channel'[Len(mgr_channel')].msg_type = "FABRIC_RESTART"
                   ELSE /\ mgr_channel' = mgr_channel
                        /\ stopped' = stopped
                        /\ fabric_events' = fabric_events
                /\ IF watch
                   THEN /\ NumWatchNode(redis_q'[<<"x0", 0>>])
                              = NumWatchNode(redis_q[<<"x0", 0>>]) + 1
                        /\ Len(redis_q'[<<"x0", 0>>]) = Len(redis_q[<<"x0", 0>>]) + 1
                        /\ \A k \in Keys \ {<<"x0", 0>>} : redis_q'[k] = redis_q[k]
                   ELSE redis_q' = redis_q /\ last_seq' = last_seq
                /\ \A n \in NodeIds \ {node} : nodes'[n] = nodes[n]
                /\ nodes'[node] = IF known /\ name # "none"
                                  THEN [nodes[node] EXCEPT !.name = name] ELSE nodes[node]]_vars

\* the leaf was renamed and reported to the watcher when it went inactive, then
\* an unknown node came up as a leaf and restarted the subscriber
C24_Witness ==
    /\ nodes[101].name = "renamed"
    /\ NumWatchNode(redis_q[<<"x0", 0>>]) = 1
    /\ stopped
    /\ Len(mgr_channel) = 1
    /\ mgr_channel[1].reason = "restarting: new leaf '301' became active"

----------------------------------------------------------------------------
(* C25: the minimum-version check *)

\* (major, minor, build) of v is lexicographically at least that of m
LexAtLeast(v, m) ==
    \/ v.major > m.major
    \/ v.major = m.major /\ v.minor > m.minor
    \/ v.major = m.major /\ v.minor = m.minor /\ v.build >= m.build

\* the first controller's version parses and is not below the minimum
FirstAccepted == apic_version[1] # NoVersion /\ LexAtLeast(apic_version[1], MinVersion)

\* _run is at the version check of lines 545-571 and takes it
ChecksVersion == main.pc = "validate" /\ PreSteps[main.i] = "supported" /\ main' # main

\* C25: the version check passes exactly when (major, minor, build) of the first
\* controller's version is lexicographically at least the minimum's, whatever the
\* patch and whatever the other controllers run; otherwise, and when the version
\* does not parse, _run records a 'failed' fabric event, clears auto_start and
\* ends: nothing is broadcast, nothing is subscribed and no table is built
C25_VersionCheck ==
    /\ [][ChecksVersion =>
            IF FirstAccepted
            THEN /\ main'.pc = "validate"
                 /\ main'.i = main.i + 1
                 /\ fabric_events' = fabric_events
                 /\ auto_start' = auto_start
            ELSE /\ main'.pc = "exit"
                 /\ fabric_events' = Append(fabric_events, FEvent("failed", "supported"))
                 /\ ~auto_start']_vars
    /\ []((published # <<>> \/ sub.subscribed \/ db_writes # {}) => FirstAccepted)
    /\ [](~FirstAccepted => main.pc \in {"validate", "exit"})
    /\ [][apic_version' = apic_version]_vars

\* the first controller runs 2.1(2b), below the minimum 2.2(1a) in its minor
\* number only, the second one runs 3.3(2b): the run ended as failed
C25_Witness ==
    /\ apic_version = <<[major |-> 2, minor |-> 1, build |-> 2, patch |-> "b"],
                        [major |-> 3, minor |-> 3, build |-> 2, patch |-> "b"]>>
    /\ main.pc = "exit"
    /\ fabric_events[Len(fabric_events)] = FEvent("failed", "supported")
    /\ ~auto_start
    /\ published = <<>>
    /\ ~sub.subscribed
    /\ db_writes = {}

----------------------------------------------------------------------------
(* C26: delete jobs for the endpoints that are gone *)

\* build_endpoint_db went through its create and delete jobs
EndpointDbBuilt ==
    \E j \in 1..Len(fabric_events) : fabric_events[j] = FEvent("initializing", "analyzing")

\* the endpoints the live query returned
PresentSet == {<<101, 1, 0>>, <<101, 1, 1>>}

IsDeleteOf(m, e) ==
    m.status = "deleted" /\ m.node = e.node /\ m.vnid = e.vnid /\ m.addr = e.addr

\* the classes of the DELETE messages for document e on queue k, in queue order
DeleteClasses(e, k) ==
    LET sel == SelectSeq(Flatten(redis_q[k]), LAMBDA m : IsDeleteOf(m, e))
    IN [j \in 1..Len(sel) |-> sel[j].classname]

ExpectedDeletes(e) ==
    IF e.status = "deleted" \/ <<e.node, e.vnid, e.addr>> \in PresentSet THEN <<>>
    ELSE IF e.type = "mac" THEN <<"epmMacEp">>
    ELSE <<"epmRsMacEpToIpEpAtt", "epmIpEp">>

\* C26: once build_endpoint_db has sent its jobs, every history document whose
\* latest status is not deleted and whose (node, vnid, addr) the live query did
\* not return has its DELETE messages on one worker queue: exactly one, of class
\* epmMacEp, for a mac document, and exactly two for an ip document,
\* epmRsMacEpToIpEpAtt and then epmIpEp; a document that is deleted already or
\* that the query returned has none, and no other DELETE is ever queued
C26_DeleteSynthesis ==
    /\ EndpointDbBuilt =>
          \A j \in 1..Len(history) :
             \E k \in Keys :
                /\ DeleteClasses(history[j], k) = ExpectedDeletes(history[j])
                /\ \A k2 \in Keys \ {k} : DeleteClasses(history[j], k2) = <<>>
    /\ \A k \in Keys : \A i \in 1..Len(Flatten(redis_q[k])) :
          Flatten(redis_q[k])[i].status = "deleted" =>
             /\ EndpointDbBuilt
             /\ \E j \in 1..Len(history) : IsDeleteOf(Flatten(redis_q[k])[i], history[j])

\* an ip endpoint of the history is gone from the fabric and a mac endpoint is
\* still there: two DELETE messages for the first, none for the second
C26_Witness ==
    /\ history = <<[node |-> 102, vnid |-> 2, addr |-> 0, type |-> "ip", status |-> "created"],
                   [node |-> 101, vnid |-> 1, addr |-> 0, type |-> "mac", status |-> "created"]>>
    /\ EndpointDbBuilt
    /\ \E k \in Keys : DeleteClasses(history[1], k) = <<"epmRsMacEpToIpEpAtt", "epmIpEp">>
    /\ \A k \in Keys : DeleteClasses(history[2], k) = <<>>

----------------------------------------------------------------------------
(* C27: a dead subscription ends the run *)

\* _run finishes a snapshot phase, build_endpoint_db or a turn of its loop
AtBoundary == main.pc \in {"build", "build_endpoint_db", "loop"} /\ main' # main

\* run() has returned with everything released
CleanExit == ~sub.subscribed /\ ~main.db_open /\ main.tickers = {}

\* C27: when the subscription is dead at the end of a bootstrap phase or at a
\* turn of the steady-state loop, _run goes no further; and once run() is over
\* the subscriptions are ended, the db connection is closed and the hello,
\* batcher and stats threads are stopped
C27_LivenessUnwinds ==
    /\ [][(AtBoundary /\ ~sub.alive) => main'.pc = "exit"]_vars
    /\ [](RunOver => CleanExit)

\* the same with the boundary between build_node_db and build_vpc_db left out,
\* and the release required only when unsubscribe() returned
C27_ChecksInCode ==
    /\ [][(AtBoundary /\ ~sub.alive /\ ~(main.pc = "build" /\ Phases[main.i] = "build_node_db"))
            => main'.pc = "exit"]_vars
    /\ [](RunOver => (CleanExit \/ (main.db_open /\ main.tickers = Tickers)))

----------------------------------------------------------------------------
(* C28: broadcast channels and their counters *)

\* the callers of broadcast: _run (watcher), soft_restart (worker) and the
\* SETTINGS_RELOAD request (no role)
BroadcastNext ==
    \/ MainStep
    \/ Tick
    \/ SubscriptionDies
    \/ CtrlSettingsReload
    \/ handle_fabric_group_ep
    \/ SoftRestartBuild
    \/ SoftRestartFlush
    \/ SoftRestartResume
    \/ SoftRestartReturn

SpecBroadcast == DispatchOnlyInit /\ [][BroadcastNext]_vars

\* what a step published
NewlyPublished == SubSeq(published', Len(published) + 1, Len(published'))

\* the seq numbers published on a channel, in order
SeqsOn(log, channel) ==
    LET sel == SelectSeq(log, LAMBDA m : m.channel = channel)
    IN [j \in 1..Len(sel) |-> sel[j].seq]

OneTo(n) == [j \in 1..n |-> j]

\* the role of the messages the subscriber broadcasts, by work type
RoleOfBroadcast(wt) ==
    CASE wt \in {"FABRIC_WATCH_PAUSE", "FABRIC_WATCH_RESUME"} -> "watcher"
      [] wt = "FLUSH_CACHE" -> "worker"
      [] OTHER -> "none"

\* C28: a message of role worker is published once, on the worker broadcast
\* channel; one of role watcher once, on the watcher broadcast channel; one
\* without a role once on each channel. The counter of a channel counts the
\* publishes on that channel and nothing else, and the n-th message published
\* on a channel carries seq n
C28_BroadcastChannels ==
    /\ [][published' # published =>
            /\ Len(published') > Len(published)
            /\ SubSeq(published', 1, Len(published)) = published
            /\ LET wt == NewlyPublished[1].wt
                   chans == [j \in 1..Len(NewlyPublished) |-> NewlyPublished[j].channel]
               IN /\ \A j \in 1..Len(NewlyPublished) : NewlyPublished[j].wt = wt
                  /\ RoleOfBroadcast(wt) = "watcher" => chans = <<WATCHER_BROADCAST_CHANNEL>>
                  /\ RoleOfBroadcast(wt) = "worker" =>
                        /\ chans = [j \in 1..Len(FlushCollections) |-> WORKER_BROADCAST_CHANNEL]
                        /\ [j \in 1..Len(NewlyPublished) |-> NewlyPublished[j].cache]
                              = FlushCollections
                  /\ RoleOfBroadcast(wt) = "none" =>
                        chans = <<WORKER_BROADCAST_CHANNEL, WATCHER_BROADCAST_CHANNEL>>]_vars
    /\ [](SeqsOn(published, WORKER_BROADCAST_CHANNEL) = OneTo(worker_broadcast_seq))
    /\ [](SeqsOn(published, WATCHER_BROADCAST_CHANNEL) = OneTo(watcher_broadcast_seq))
    /\ [](\A j \in 1..Len(published) :
            published[j].channel \in {WORKER_BROADCAST_CHANNEL, WATCHER_BROADCAST_CHANNEL})

\* a pause for the watchers, a settings reload for everybody and the cache
\* flushes of a soft restart for the workers have all been published
C28_Witness ==
    /\ \E j \in 1..Len(published) : published[j].wt = "FABRIC_WATCH_PAUSE"
    /\ \E j \in 1..Len(published) : published[j].wt = "SETTINGS_RELOAD"
    /\ \E j \in 1..Len(published) : published[j].wt = "FLUSH_CACHE"
    /\ worker_broadcast_seq = Len(FlushCollections) + 1
    /\ watcher_broadcast_seq >= 2

----------------------------------------------------------------------------
(* C29: an endpoint refresh goes to the head of the queue, forced *)

RefreshNext ==
    \/ BootStep
    \/ SubscriptionDies
    \/ CtrlRefreshEpt

\* the history holds endpoints of vnid 1; requests come for vnid 1 and vnid 2
RefreshInit ==
    /\ HistoryInit
    /\ \A j \in 1..Len(history) : history[j].vnid = 1

SpecRefresh == RefreshInit /\ [][RefreshNext]_vars

\* what tells one endpoint message from another
Ident(m) == <<m.classname, m.node, m.vnid, m.addr, m.status>>

\* the history documents a refresh of (vnid, addr) has to delete, the query
\* having returned objects
GoneDocs(vnid, addr, objects) ==
    {j \in 1..Len(history) :
        /\ history[j].status # "deleted"
        /\ history[j].vnid = vnid
        /\ history[j].addr = addr
        /\ \A i \in 1..Len(objects) : objects[i].node # history[j].node}

ExpectedRefresh(vnid, addr, objects) ==
    {Ident(objects[i]) : i \in 1..Len(objects)}
    \cup {<<"epmMacEp", history[j].node, vnid, addr, "deleted">> :
             j \in {i \in GoneDocs(vnid, addr, objects) : history[i].type = "mac"}}
    \cup {<<c, history[j].node, vnid, addr, "deleted">> :
             c \in {"epmRsMacEpToIpEpAtt", "epmIpEp"},
             j \in {i \in GoneDocs(vnid, addr, objects) : history[i].type # "mac"}}

\* the envelopes a step put in front of queue k, nothing behind them having changed
PutInFront(k, n) ==
    /\ n = Len(redis_q'[k]) - Len(redis_q[k])
    /\ SubSeq(redis_q'[k], n + 1, Len(redis_q'[k])) = redis_q[k]

\* C29: every message a REFRESH_EPT request produces, the creates of the
\* targeted query and the deletes synthesized from the history, carries
\* force = true and sits in front of everything its worker queue held before;
\* when the query returns None nothing is sent
C29_RefreshPrepends ==
    [][\A vnid \in 1..2, addr \in 0..1, addr_type \in {"mac", "ip"}, ok \in BOOLEAN :
         \A objects \in RefreshReplies(vnid, addr, addr_type) :
            RefreshEndpoint(vnid, addr, addr_type, ok, objects) =>
               IF ~ok THEN UNCHANGED <<redis_q, last_seq, stamp_log>>
               ELSE /\ \A k \in Keys : \E n \in 0..Len(redis_q'[k]) :
                         /\ PutInFront(k, n)
                         /\ \A i \in 1..n : \A m \in {Expand(redis_q'[k][i])[j] :
                                                         j \in 1..Len(Expand(redis_q'[k][i]))} :
                               m.force
                    /\ UNION {{Ident(Flatten(SubSeq(redis_q'[k], 1,
                                     Len(redis_q'[k]) - Len(redis_q[k])))[j]) :
                                  j \in 1..Len(Flatten(SubSeq(redis_q'[k], 1,
                                     Len(redis_q'[k]) - Len(redis_q[k]))))} : k \in Keys}
                          = ExpectedRefresh(vnid, addr, objects)]_vars

\* a refresh found the endpoint on one leaf and deleted it from another: the
\* forced create and the forced delete are in front of the EOF marker
C29_Witness ==
    \E k \in Keys :
       /\ Len(redis_q[k]) >= 2
       /\ redis_q[k][Len(redis_q[k])].wt = "FABRIC_EPM_EOF"
       /\ \E i, j \in 1..Len(Flatten(redis_q[k])) :
             /\ Flatten(redis_q[k])[i].force /\ Flatten(redis_q[k])[i].status = "created"
             /\ Flatten(redis_q[k])[j].force /\ Flatten(redis_q[k])[j].status = "deleted"
       /\ Head(Flatten(redis_q[k])).force

----------------------------------------------------------------------------
(* C30: messages send_msg cannot place as asked *)

\* messages for a queue past the worker's last one, for its last one, for a
\* worker without queues and for a role without workers
ClampTemplates ==
    { Msg("EPM_EVENT", "worker", 1, 1, 3), Msg("EPM_EVENT", "worker", 1, 1, 2),
      Msg("EPM_EVENT", "worker", 1, 1, 1), Msg("EPM_EVENT", "worker", 1, 0, 1),
      Msg("STD_MO", "idle", 0, 0, 0), Msg("STD_MO", "manager", 0, 0, 0) }

\* one send_msg call on a batch of such messages
ClampNext ==
    \/ /\ nmsgs = 0
       /\ \E b \in BatchesOf(ClampTemplates, MaxMsgs), p \in BOOLEAN :
             SendMsgBegin("ctrl", b, p)
    \/ \E c \in Threads :
        \/ SendMsgRoute(c)
        \/ SendMsgStamp(c)
        \/ SendMsgPush(c)
        \/ Return(c)

SpecClamp == DispatchOnlyInit /\ [][ClampNext /\ UNCHANGED fvars]_vars

\* the workers of a role, none for a role that is not in the table
WorkersOf(role) == IF role \in {"worker", "watcher", "idle"} THEN active_workers[role] ELSE <<>>

\* the queue the claim gives message m, <<"none", 0>> for a message it skips
ClaimedKey(m) ==
    LET ws == WorkersOf(m.role)
    IN IF Len(ws) = 0 THEN <<"none", 0>>
       ELSE LET w == ws[(get_msg_hash(m) % Len(ws)) + 1]
                n == CASE w = "w0" -> 2 [] w = "z0" -> 0 [] OTHER -> 1
            IN IF n = 0 THEN <<"none", 0>>
               ELSE IF m.qnum >= n THEN <<w, n - 1>>
               ELSE <<w, m.qnum>>

ClaimedOn(msgs, k) == SelectSeq(msgs, LAMBDA m : ClaimedKey(m) = k)

\* C30: when a send_msg call is over, each queue has received, in order and as
\* the only messages of the call, the messages whose qnum names it and the
\* messages whose qnum is past the last queue of a worker of which it is the
\* last queue; they carry the queue's number and consecutive seq numbers. A
\* message for a worker without queues or for a role without workers is on no
\* queue and has used no seq, and the rest of its call is sent all the same
C30_ClampAndSkip ==
    \A c \in Threads : (call[c].fn = "send_msg" /\ call[c].pc = "done") =>
        \A k \in Keys :
            LET got == Flatten(call[c].sent[k])
                want == ClaimedOn(call[c].msgs, k)
            IN /\ [j \in 1..Len(got) |-> got[j].data] = [j \in 1..Len(want) |-> want[j].data]
               /\ \A j \in 1..Len(got) : got[j].qnum = k[2] /\ got[j].seq = j
               /\ last_seq[k] = Len(want)
               /\ Flatten(redis_q[k]) # <<>> <=> want # <<>>

\* one call with a message for queue 3 of w0, one for the worker without queues
\* and one for queue 1 of w0: the first and the last are on queue 1 of w0
C30_Witness ==
    /\ call["ctrl"].pc = "done"
    /\ Len(call["ctrl"].msgs) = 3
    /\ call["ctrl"].msgs[1].qnum = 3
    /\ call["ctrl"].msgs[2].role = "idle"
    /\ call["ctrl"].msgs[3].qnum = 1 /\ call["ctrl"].msgs[3].addr = 1
    /\ last_seq[<<"w0", 1>>] = 2
    /\ \A k \in Keys \ {<<"w0", 1>>} : last_seq[k] = 0 /\ redis_q[k] = <<>>
    /\ Len(Flatten(redis_q[<<"w0", 1>>])) = 2

----------------------------------------------------------------------------
(* C31: the test of the EPM EOF timeout in the running loop *)

\* the running loop enters its timeout branch in this step
TimeoutBranchTaken == main.pc = "loop" /\ main'.pc = "timeout_warn"

----------------------------------------------------------------------------
(* C32: exceptions raised inside the steady-state handlers *)

\* lines 947-961: epm_parser.parse raises on the event; the except clause of
\* handle_epm_event logs it and the callback returns with nothing queued
EpmEventRaises ==
    /\ Running
    /\ sub.alive
    /\ sub.epm_interest
    /\ ~sub.epm_paused
    /\ EpmAccepts
    /\ n_events < MaxEvents
    /\ n_events' = n_events + 1
    /\ Deliver("handle_epm_event")
    /\ UNCHANGED <<dvars, flags, barrier, threads, evq, bvars, now, sub, ctrl_listening,
                   n_ctrl, logs>>

\* lines 437-448: eptMsg.parse or handle_subscriber_ctrl raises; the except
\* clause of handle_channel_msg logs it and the listener takes the next message
CtrlMsgRaises ==
    /\ CtrlGuard(MaxCtrl)
    /\ UNCHANGED <<dvars, flags, barrier, threads, evq, bvars, now, sub, ctrl_listening,
                   n_events, delivered, logs>>

\* lines 891-898, 815-836: a database or controller call of rebuild step f
\* raises inside soft_restart, which has no handler of its own: the exception
\* unwinds through handle_fabric_group_ep to the except clause of handle_event,
\* past lines 844-846
SoftRestartRaises ==
    /\ ev.pc = "sr_build"
    /\ Running
    /\ \E f \in 1..Len(SrSteps) :
         /\ db_writes' = db_writes \cup WroteBefore(f)
         /\ ev' = [ev EXCEPT !.pc = "idle", !.wrote = WroteBefore(f)]
    /\ UNCHANGED <<dvars, flags, barrier, main, ctrl, evq, bvars, world, fabric_events,
                   mgr_channel, sr_log>>

HandlerRaises == EpmEventRaises \/ CtrlMsgRaises \/ SoftRestartRaises

\* the callbacks and the control channel, each of which may raise
HandlerErrorNext ==
    \/ BootStep
    \/ SubscriptionDies
    \/ handle_std_mo_event
    \/ handle_epm_event
    \/ handle_fabric_group_ep
    \/ SoftRestartBuild
    \/ SoftRestartFlush
    \/ SoftRestartResume
    \/ SoftRestartReturn
    \/ CtrlDeleteEpt
    \/ EpmEventRaises
    \/ CtrlMsgRaises
    \/ SoftRestartRaises

SpecHandlerError == Init /\ [][HandlerErrorNext]_vars

\* with no callback in progress and the subscriber neither stopped nor dead,
\* the steady state accepts slow events: they are delivered and not dropped
SlowEventsServed ==
    (main.pc = "loop" /\ ev.pc = "idle" /\ ~stopped /\ sub.alive)
        => (~initializing /\ ~sub.slow_paused)

\* C32: an exception raised while handling a control-channel message or a
\* subscription event is caught: it does not set stopped, does not end the main
\* loop or the subscription, and later events are still handled.
C32_HandlerExceptionsSurvived ==
    /\ [][HandlerRaises => UNCHANGED <<stopped, main, sub, ctrl_listening>>]_vars
    /\ [](SlowEventsServed)

----------------------------------------------------------------------------
(* C33: build_endpoint_db over the streams of the three EPM class queries *)

\* objects streamed back by the class queries of one run, over all classes
MaxObjects == 3

ObjKinds == {"obj", "invalid", "None"}

\* a stream of the given kinds; the addresses alternate
StreamOf(kinds) == [j \in 1..Len(kinds) |-> EpmObj(kinds[j], j % 2)]

RECURSIVE TotalLen(_, _)
TotalLen(r, cs) == IF cs = <<>> THEN 0 ELSE Len(r[Head(cs)]) + TotalLen(r, Tail(cs))

EpmReplies ==
    LET streams == {StreamOf(k) : k \in UNION {[1..n -> ObjKinds] : n \in 0..MaxObjects}}
    IN {r \in [{EpmClasses[j] : j \in 1..Len(EpmClasses)} -> streams] :
           TotalLen(r, EpmClasses) <= MaxObjects}

\* the database knows a mac endpoint on leaf 101, and an ip and a mac endpoint on
\* leaf 102, where the class queries find nothing
EndpointDbInit ==
    /\ DispatchInit
    /\ FsmInit
    /\ settings.queue_init_events = TRUE
    /\ PairInit
    /\ nodes = NodeTable
    /\ auto_start = TRUE
    /\ apic_version = <<MinVersion>>
    /\ history = <<[type |-> "mac", node |-> 101, vnid |-> 1, addr |-> 0,
                    status |-> "created"],
                   [type |-> "ip", node |-> 102, vnid |-> 1, addr |-> 1,
                    status |-> "created"],
                   [type |-> "mac", node |-> 102, vnid |-> 1, addr |-> 0,
                    status |-> "created"]>>
    /\ epm_reply \in EpmReplies

EndpointDbNext ==
    \/ BootStep
    \/ SubscriptionDies

SpecEndpointDb == EndpointDbInit /\ [][EndpointDbNext]_vars

\* the operations op of the trace, in order
OpsOf(op) == SelectSeq(main.trace, LAMBDA t : t.op = op)

RECURSIVE SentMsgs(_, _)
\* the messages of status st handed to send_msg by ops, in order
SentMsgs(ops, st) ==
    IF ops = <<>> THEN <<>>
    ELSE SelectSeq(Head(ops).msgs, LAMBDA m : m.status = st) \o SentMsgs(Tail(ops), st)

RECURSIVE ParsedOf(_, _)
\* the CREATE messages of the objects with attributes, class by class
ParsedOf(r, cs) ==
    IF cs = <<>> THEN <<>>
    ELSE LET objs == SelectSeq(r[Head(cs)], LAMBDA o : o.kind = "obj")
         IN [j \in 1..Len(objs) |-> EpmCreate(Head(cs), 101, 1, objs[j].addr)]
            \o ParsedOf(r, Tail(cs))

IsPrefix(a, b) == Len(a) <= Len(b) /\ a = SubSeq(b, 1, Len(a))

ClassIndex(c) == CHOOSE j \in 1..Len(EpmClasses) : EpmClasses[j] = c

\* build_endpoint_db has returned
EndpointDbReturned == main.trace # <<>>

\* it returned failure: _run recorded the failed event
EndpointDbFailed ==
    \E j \in 1..Len(fabric_events) : fabric_events[j] = FEvent("failed", "build_endpoint_db")

RECURSIVE QueuedCount(_)
QueuedCount(ks) ==
    IF ks = {} THEN 0
    ELSE LET k == CHOOSE x \in ks : TRUE
         IN Len(Flatten(redis_q[k])) + QueuedCount(ks \ {k})

\* C33: in build_endpoint_db the interest of each EPM class is added, paused iff
\* queue_init_epm_events, before the first object of that class is processed;
\* the classes go in the order epmRsMacEpToIpEpAtt, epmIpEp, epmMacEp; the
\* CREATE messages reach send_msg in batches of at most MAX_SEND_MSG_LENGTH,
\* every parsed object exactly once; every CREATE batch goes before the first
\* DELETE; a failed add_interest or a None object ends the phase with failure.
C33_EndpointDbBuild ==
    EndpointDbReturned =>
       LET T == main.trace
           adds == OpsOf("add_interest")
           sends == OpsOf("send_msg")
           creates == SentMsgs(sends, "created")
       IN /\ \A j \in 1..Len(adds) :
                /\ adds[j].classname = EpmClasses[j]
                /\ adds[j].paused = settings.queue_init_epm_events
          /\ \A j \in 1..Len(T) :
                T[j].op = "object" =>
                   /\ \E i \in 1..(j - 1) :
                         /\ T[i].op = "add_interest"
                         /\ T[i].classname = T[j].classname
                         /\ T[i].ok
                   /\ \A i \in 1..(j - 1) :
                         T[i].op # "send_msg" =>
                            ClassIndex(T[i].classname) <= ClassIndex(T[j].classname)
          /\ \A j \in 1..Len(sends) :
                /\ Len(sends[j].msgs) >= 1
                /\ Len(sends[j].msgs) <= MAX_SEND_MSG_LENGTH
                /\ \A a, b \in 1..Len(sends[j].msgs) :
                      sends[j].msgs[a].status = sends[j].msgs[b].status
          /\ \A i, j \in 1..Len(sends) :
                (sends[i].msgs[1].status = "deleted" /\ sends[j].msgs[1].status = "created")
                   => j < i
          /\ IsPrefix(creates, ParsedOf(epm_reply, EpmClasses))
          /\ ~EndpointDbFailed => creates = ParsedOf(epm_reply, EpmClasses)
          /\ EndpointDbFailed <=> ~T[Len(T)].ok
          /\ \A j \in 1..(Len(T) - 1) : T[j].ok
          /\ EndpointDbFailed => main.pc = "exit" /\ SentMsgs(sends, "deleted") = <<>>
          /\ (main.pc = "epm_done" \/ EndpointDbFailed) =>
                QueuedCount(Keys) = Len(creates) + Len(SentMsgs(sends, "deleted"))

\* one class streamed three objects, sent as a full batch and a rest, and the
\* delete jobs of the two documents of leaf 102 followed in two batches
C33_Witness ==
    /\ main.pc = "epm_done"
    /\ \E c \in {"epmIpEp", "epmMacEp"} :
          Len(SelectSeq(main.trace, LAMBDA t : t.op = "object" /\ t.classname = c)) = 3
    /\ Len(SentMsgs(OpsOf("send_msg"), "created")) = 3
    /\ Len(SentMsgs(OpsOf("send_msg"), "deleted")) = 3
    /\ Len(OpsOf("send_msg")) = 4

----------------------------------------------------------------------------
(* C34: the order of the teardown in run() *)

\* C34: on shutdown the hello, stats and batcher threads are stopped before the
\* db connection is closed, so that no ticker is left running on a closed db.
C34_TickersBeforeDbClose == ~main.db_open => main.tickers = {}

\* what holds instead: the db connection is closed first, and the threads are
\* stopped only after it, in the order hello, batcher, stats
C34_DbClosedFirst ==
    /\ main.tickers # Tickers => ~main.db_open
    /\ "sub-hello" \in main.tickers => "sub-event" \in main.tickers
    /\ "sub-event" \in main.tickers => "sub-stats" \in main.tickers

----------------------------------------------------------------------------
(* C35: increment_stats, statement by statement, called from several threads *)

\* increment_stats calls entered, over all threads
MaxStatsCalls == 3

\* worker.queues[qnum] as a key of self.queue_stats
QueueKey(k) == <<"queue", k[1], k[2]>>

ChannelKey(c) == <<c, "", 0>>

TotalKey == <<"total", "", 0>>

\* lines 354-383: send_msg calls increment_stats once per message it routes
SendMsgStats(msgs) ==
    LET routed == SelectSeq(msgs, Routable)
    IN [j \in 1..Len(routed) |-> QueueKey(RouteKey(routed[j]))]

\* lines 416-426: send_msg_direct, once for a message whose queue exists
SendDirectStats(w, m) ==
    IF m.qnum >= NumQueues[w] THEN <<>> ELSE <<QueueKey(<<w, m.qnum>>)>>

\* lines 319-336: broadcast, once per channel published to
BroadcastStats(role) ==
    IF role = "watcher" THEN <<ChannelKey(WATCHER_BROADCAST_CHANNEL)>>
    ELSE IF role = "worker" THEN <<ChannelKey(WORKER_BROADCAST_CHANNEL)>>
    ELSE <<ChannelKey(WORKER_BROADCAST_CHANNEL), ChannelKey(WATCHER_BROADCAST_CHANNEL)>>

\* lines 300-304: send_hello
HelloStats == <<ChannelKey(WORKER_CTRL_CHANNEL)>>

\* the calls each thread makes, as the queues whose stats they increment
StatsCalls(t) ==
    CASE t = "main" ->
            {SendDirectStats("w1", EofMsg), BroadcastStats("watcher"), SendMsgStats(CreateMsgs)}
      [] t = "hello" -> {HelloStats}
      [] t = "batcher" -> {SendMsgStats(b) : b \in BatchesOf(LockMsgs, MAX_SEND_MSG_LENGTH)}
      [] t = "ctrl" ->
            {BroadcastStats("all"), SendMsgStats(<<Msg("DELETE_EPT", "worker", 1, 1, 0)>>)}
      [] OTHER -> {}

\* increment_stats calls entered or still to come in the calls begun by t
StatsCallsOf(t) ==
    Len(stats_call[t].made) + Len(stats_call[t].keys)
        - (IF stats_call[t].pc \in {"idle", "acquire"} THEN 0 ELSE 1)

StatsCallsMade ==
    StatsCallsOf("main") + StatsCallsOf("hello") + StatsCallsOf("batcher") + StatsCallsOf("ctrl")

\* the stats lock is never waited for
StatsLockIgnored == TRUE

\* line 279: with self.queue_stats_lock
StatsLockFree == queue_stats_lock = "free"

\* thread t enters send_msg, send_msg_direct, broadcast or send_hello
StatsCall(t) ==
    /\ stats_call[t].pc = "idle"
    /\ \E ks \in StatsCalls(t) :
          /\ ks # <<>>
          /\ StatsCallsMade + Len(ks) <= MaxStatsCalls
          /\ stats_call' = [stats_call EXCEPT ![t].keys = ks, ![t].pc = "acquire"]
    /\ UNCHANGED <<queue_stats, queue_stats_lock>>

\* lines 279-280: increment_stats(queue, tx=True) takes the lock; every queue
\* of a worker and every channel is in self.queue_stats
StatsAcquire(t) ==
    /\ stats_call[t].pc = "acquire"
    /\ StatsLockFree
    /\ queue_stats_lock' = t
    /\ stats_call' = [stats_call EXCEPT ![t].pc = "load_queue",
                                        ![t].made = Append(@, Head(stats_call[t].keys))]
    /\ UNCHANGED queue_stats

\* lines 282-283: "+=" reads the counter and then writes it, first for the queue
\* and then for "total"
StatsLoad(t) ==
    /\ stats_call[t].pc \in {"load_queue", "load_total"}
    /\ LET k == IF stats_call[t].pc = "load_queue" THEN Head(stats_call[t].keys) ELSE TotalKey
       IN stats_call' = [stats_call EXCEPT
                            ![t].tmp = queue_stats[k],
                            ![t].pc = IF @ = "load_queue" THEN "store_queue" ELSE "store_total"]
    /\ UNCHANGED <<queue_stats, queue_stats_lock>>

StatsStore(t) ==
    /\ stats_call[t].pc \in {"store_queue", "store_total"}
    /\ LET k == IF stats_call[t].pc = "store_queue" THEN Head(stats_call[t].keys) ELSE TotalKey
       IN queue_stats' = [queue_stats EXCEPT ![k] = stats_call[t].tmp + 1]
    /\ stats_call' = [stats_call EXCEPT
                         ![t].tmp = 0,
                         ![t].pc = IF @ = "store_queue" THEN "load_total" ELSE "release"]
    /\ UNCHANGED queue_stats_lock

\* the end of the "with" block; the caller goes on to its next message
StatsRelease(t) ==
    /\ stats_call[t].pc = "release"
    /\ queue_stats_lock' = "free"
    /\ stats_call' = [stats_call EXCEPT
                         ![t].keys = Tail(@),
                         ![t].pc = IF Len(stats_call[t].keys) > 1 THEN "acquire" ELSE "idle"]
    /\ UNCHANGED queue_stats

StatsNext ==
    /\ \E t \in LockThreads :
          StatsCall(t) \/ StatsAcquire(t) \/ StatsLoad(t) \/ StatsStore(t) \/ StatsRelease(t)
    /\ UNCHANGED <<last_seq, redis_q, queue_locks, call, stamp_log, nmsgs,
                   manager_ctrl_channel_lock, lock_ops, bcast_call, xvars, fvars>>

SpecStats == DispatchOnlyInit /\ [][StatsNext]_vars

\* increment_stats calls entered for key k, over all threads
RECURSIVE StatsEntered(_, _)
StatsEntered(k, ts) ==
    IF ts = {} THEN 0
    ELSE LET t == CHOOSE x \in ts : TRUE
         IN Len(SelectSeq(stats_call[t].made, LAMBDA x : x = k)) + StatsEntered(k, ts \ {t})

RECURSIVE StatsEnteredAll(_)
StatsEnteredAll(ts) ==
    IF ts = {} THEN 0
    ELSE LET t == CHOOSE x \in ts : TRUE
         IN Len(stats_call[t].made) + StatsEnteredAll(ts \ {t})

\* the threads inside increment_stats that have not yet written the counter of k
StatsPending(k) ==
    {t \in LockThreads : /\ stats_call[t].pc \in {"load_queue", "store_queue"}
                         /\ Head(stats_call[t].keys) = k}

StatsPendingTotal ==
    {t \in LockThreads :
        stats_call[t].pc \in {"load_queue", "store_queue", "load_total", "store_total"}}

\* C35: under every interleaving of send_msg, send_msg_direct, broadcast and
\* send_hello, the tx counter of each tracked queue has grown by exactly the
\* number of messages stamped or published for it, one per inner message, and
\* the counter of "total" by the sum of these; no increment is lost.
C35_StatsConsistent ==
    /\ \A k \in QueueStatsKeys \ {TotalKey} :
          queue_stats[k] = StatsEntered(k, LockThreads) - Cardinality(StatsPending(k))
    /\ queue_stats[TotalKey] = StatsEnteredAll(LockThreads) - Cardinality(StatsPendingTotal)
    /\ \A t \in LockThreads : stats_call[t].pc = "idle" =>
          /\ stats_call[t].keys = <<>>
          /\ queue_stats_lock # t

\* two threads have incremented the stats of the same worker queue, one of them
\* for both messages of one call, and all calls have returned
C35_Witness ==
    /\ \A t \in LockThreads : stats_call[t].pc = "idle"
    /\ \E k \in Keys :
          /\ queue_stats[QueueKey(k)] = 3
          /\ Cardinality({t \in LockThreads : QueueKey(k) \in
                             {stats_call[t].made[j] : j \in 1..Len(stats_call[t].made)}}) = 2
    /\ queue_stats[TotalKey] = 3

----------------------------------------------------------------------------
(* C36: broadcast, statement by statement, called from several threads *)

\* broadcast calls entered, over all threads
MaxBroadcasts == 3

\* the broadcasts of each thread: _run (the RESUME of the timeout), the control
\* channel (the RESUME of the last ack, SETTINGS_RELOAD with role None) and the
\* subscription thread (send_flush in soft_restart)
BroadcastCalls(t) ==
    CASE t = "main" -> {[role |-> "watcher", wt |-> "FABRIC_WATCH_RESUME"]}
      [] t = "ctrl" -> {[role |-> "watcher", wt |-> "FABRIC_WATCH_RESUME"],
                        [role |-> "none", wt |-> "SETTINGS_RELOAD"]}
      [] t = "event" -> {[role |-> "worker", wt |-> "FLUSH_CACHE"]}
      [] OTHER -> {}

BroadcastsMade == bcast_call["main"].n + bcast_call["ctrl"].n + bcast_call["event"].n

\* lines 319-331: the counters a message of this role increments, in code order
IncrementsOf(role) ==
    IF role = "watcher" THEN <<WATCHER_BROADCAST_CHANNEL>>
    ELSE IF role = "worker" THEN <<WORKER_BROADCAST_CHANNEL>>
    ELSE <<WATCHER_BROADCAST_CHANNEL, WORKER_BROADCAST_CHANNEL>>

\* lines 319-331: channels, in the order of the seq list
ChannelsOf(role) ==
    IF role = "watcher" THEN <<WATCHER_BROADCAST_CHANNEL>>
    ELSE IF role = "worker" THEN <<WORKER_BROADCAST_CHANNEL>>
    ELSE <<WORKER_BROADCAST_CHANNEL, WATCHER_BROADCAST_CHANNEL>>

BroadcastSeq(channel) ==
    IF channel = WORKER_BROADCAST_CHANNEL THEN worker_broadcast_seq ELSE watcher_broadcast_seq

\* lines 313-319: broadcast(msg) is entered and the role of the message read
BcastBegin(t) ==
    /\ bcast_call[t].pc = "idle"
    /\ BroadcastsMade < MaxBroadcasts
    /\ \E c \in BroadcastCalls(t) :
          bcast_call' = [bcast_call EXCEPT ![t] =
                            [BcastIdle EXCEPT !.pc = "load", !.wt = c.wt,
                                              !.incs = IncrementsOf(c.role),
                                              !.channels = ChannelsOf(c.role),
                                              !.n = bcast_call[t].n + 1]]
    /\ UNCHANGED bvars

\* lines 321, 325, 328-329: "self.x_broadcast_seq += 1" reads the counter ...
BcastLoad(t) ==
    /\ bcast_call[t].pc = "load"
    /\ bcast_call' = [bcast_call EXCEPT ![t].tmp = BroadcastSeq(Head(bcast_call[t].incs)),
                                        ![t].pc = "store"]
    /\ UNCHANGED bvars

\* ... and then writes it; no lock is held
BcastStore(t) ==
    /\ bcast_call[t].pc = "store"
    /\ LET c == bcast_call[t]
       IN /\ IF Head(c.incs) = WORKER_BROADCAST_CHANNEL
             THEN worker_broadcast_seq' = c.tmp + 1 /\ UNCHANGED watcher_broadcast_seq
             ELSE watcher_broadcast_seq' = c.tmp + 1 /\ UNCHANGED worker_broadcast_seq
          /\ bcast_call' = [bcast_call EXCEPT
                               ![t].incs = Tail(@), ![t].tmp = 0,
                               ![t].pc = IF Len(c.incs) > 1 THEN "load" ELSE "read"]
    /\ UNCHANGED published

\* lines 322, 326, 330: seq = [...] reads the counters again
BcastRead(t) ==
    /\ bcast_call[t].pc = "read"
    /\ bcast_call' = [bcast_call EXCEPT
                         ![t].seq = [j \in 1..Len(bcast_call[t].channels) |->
                                       BroadcastSeq(bcast_call[t].channels[j])],
                         ![t].pc = "publish"]
    /\ UNCHANGED bvars

\* lines 332-335: m.seq = seq[i]; self.redis.publish(channel, m.jsonify())
BcastPublish(t) ==
    /\ bcast_call[t].pc = "publish"
    /\ LET c == bcast_call[t]
       IN /\ published' = Append(published, BMsg(Head(c.channels), c.wt, Head(c.seq), "none"))
          /\ bcast_call' = [bcast_call EXCEPT
                               ![t] = IF Len(c.channels) > 1
                                      THEN [c EXCEPT !.channels = Tail(@), !.seq = Tail(@)]
                                      ELSE [BcastIdle EXCEPT !.n = c.n]]
    /\ UNCHANGED <<worker_broadcast_seq, watcher_broadcast_seq>>

BroadcastRaceNext ==
    /\ \E t \in LockThreads :
          BcastBegin(t) \/ BcastLoad(t) \/ BcastStore(t) \/ BcastRead(t) \/ BcastPublish(t)
    /\ UNCHANGED <<last_seq, redis_q, queue_locks, call, stamp_log, nmsgs, queue_stats_lock,
                   manager_ctrl_channel_lock, lock_ops, queue_stats, stats_call, xvars,
                   flags, barrier, threads, evq, world, logs>>

SpecBroadcastRace == DispatchOnlyInit /\ [][BroadcastRaceNext]_vars

\* C36: under every interleaving of concurrent broadcast calls the seq values
\* published on one broadcast channel are strictly increasing in publish order,
\* and no seq value is published twice on a channel.
C36_ChannelSeqIncreasing ==
    \A ch \in {WORKER_BROADCAST_CHANNEL, WATCHER_BROADCAST_CHANNEL} :
       LET seqs == SeqsOn(published, ch)
       IN \A i, j \in 1..Len(seqs) : i < j => seqs[i] < seqs[j]

\* what holds of the unlocked counters: a published seq is never above the
\* number of broadcasts begun for the channel, and a counter never runs ahead
C36_SeqBounded ==
    \A ch \in {WORKER_BROADCAST_CHANNEL, WATCHER_BROADCAST_CHANNEL} :
       /\ BroadcastSeq(ch) <= BroadcastsMade
       /\ \A j \in 1..Len(SeqsOn(published, ch)) :
             SeqsOn(published, ch)[j] \in 1..BroadcastsMade

----------------------------------------------------------------------------
(* C37: initializing while soft_restart rebuilds *)

\* soft_restart is between line 805 and line 845
Rebuilding == ev.pc \in {"sr_build", "sr_flush", "sr_resume"}

SoftRestartStarts == Len(sr_log') > Len(sr_log)

C37_WitnessEscalated ==
    /\ Len(sr_log) >= 1
    /\ ev.pc = "idle"
    /\ initializing
    /\ stopped

----------------------------------------------------------------------------
(* C38: when add_fabric_event("running") is called *)

\* this step records a "running" fabric event from src
RunningRecorded(src) ==
    \E j \in (Len(fabric_events) + 1)..Len(fabric_events') :
       fabric_events'[j] = FEvent("running", src)

BuildOverNoBarrier == ~epm_initializing' /\ ~epm_eof_tracking'.active

\* C38: whenever a "running" fabric event is recorded, the one at the end of a
\* soft restart included, epm_initializing is false and epm_eof_tracking is
\* None.
C38_RunningOnlyAfterBuild ==
    [][(\E src \in {"timeout", "ack", "soft_restart"} : RunningRecorded(src))
          => BuildOverNoBarrier]_vars

\* the "running" events of _run and of the ack handler are recorded with
\* epm_initializing false and epm_eof_tracking None
C38_RunningOfBarrier ==
    [][(RunningRecorded("timeout") \/ RunningRecorded("ack")) => BuildOverNoBarrier]_vars

----------------------------------------------------------------------------
(* C39: FABRIC_WATCH_RESUME and the EPM_EOF markers *)

ResumePublished == \E j \in 1..Len(published) : IsResume(published[j])

\* every active worker was sent its FABRIC_EPM_EOF marker (lines 714-721)
EofSentToAll ==
    \A j \in 1..Len(active_workers["worker"]) : EofSentTo(active_workers["worker"][j])

\* every FABRIC_WATCH_RESUME published follows a FABRIC_WATCH_PAUSE
PauseBeforeResume ==
    \A j \in 1..Len(published) :
       IsResume(published[j]) => \E i \in 1..(j - 1) : IsPause(published[i])

\* _run returned before the EPM EOF markers were all sent
BootstrapAborted == main.pc = "exit" /\ ~EofSentToAll

\* C39: a FABRIC_WATCH_RESUME broadcast is preceded by the FABRIC_WATCH_PAUSE
\* broadcast and by the sending of EPM_EOF to the workers, and a bootstrap that
\* aborts after FABRIC_WATCH_PAUSE never broadcasts FABRIC_WATCH_RESUME.
C39_ResumeAfterEof ==
    /\ ResumePublished => (PauseBeforeResume /\ EofSentToAll)
    /\ BootstrapAborted => ~ResumePublished

\* what holds: a FABRIC_WATCH_RESUME follows the FABRIC_WATCH_PAUSE and the start
\* of the tracking (line 713), and no bootstrap that returns before line 713
\* broadcasts it
C39_ResumeAfterPause ==
    /\ ResumePublished => (PauseBeforeResume /\ epm_eof_start >= 0)
    /\ (main.pc = "exit" /\ epm_eof_start < 0) => ~ResumePublished

----------------------------------------------------------------------------
(* C40: the order of the envelopes of one send_msg call with prepend *)

\* the send_msg call of the control thread pushed its envelopes with lpush
PrependCallDone == call["ctrl"].pc = "done" /\ call["ctrl"].prepend

\* the messages are in the order they were given to the call (data holds the
\* position of the message in the call, seq the number stamped on it)
InIntakeOrder(ms) ==
    \A i, j \in 1..Len(ms) : i < j => (ms[i].data < ms[j].data /\ ms[i].seq < ms[j].seq)

\* C40: after a send_msg call with prepend its envelopes for one (worker, qnum)
\* read from head to tail hold the messages in the order in which they were
\* given to the call, with increasing seq.
C40_PrependKeepsIntakeOrder ==
    PrependCallDone => \A k \in Keys : InIntakeOrder(Flatten(redis_q[k]))

\* what lpush per envelope gives: inside an envelope the intake order, and an
\* envelope nearer the head holds the later messages
C40_PrependReversesEnvelopes ==
    PrependCallDone =>
       \A k \in Keys :
          /\ \A e \in 1..Len(redis_q[k]) : InIntakeOrder(Expand(redis_q[k][e]))
          /\ \A e, f \in 1..Len(redis_q[k]) :
                e < f => \A i \in 1..Len(Expand(redis_q[k][e])),
                            j \in 1..Len(Expand(redis_q[k][f])) :
                            Expand(redis_q[k][e])[i].seq > Expand(redis_q[k][f])[j].seq

\* the same call with rpush keeps the intake order
C40_AppendKeepsIntakeOrder ==
    (call["ctrl"].pc = "done" /\ ~call["ctrl"].prepend) =>
       \A k \in Keys : InIntakeOrder(Flatten(redis_q[k]))

============================================================================
